---- MODULE Spec2Model ----
(***************************************************************************)
(* A model of the two text engines of pdf-to-structured-data:              *)
(*   - the JSON salvage of app/api/extract/route.ts (sanitizeJsonString,   *)
(*     escapeNewlinesInQuotedStrings, extractLikelyItemsArray,             *)
(*     tryParseJSON and the part of POST that answers a salvage failure);  *)
(*   - the heuristic price miner of lib/priceExtractor.ts (extractFromPdf  *)
(*     and its helpers).                                                   *)
(* Text is a sequence of one-character strings; a regular expression of    *)
(* the source is an operator that matches as the expression does.          *)
(***************************************************************************)
EXTENDS Integers, Sequences, FiniteSets, TLC

(***************************************************************************)
(* Characters and strings                                                  *)
(***************************************************************************)

\* A TLA+ string as the sequence of its characters.
Chars(s) == [i \in 1..Len(s) |-> SubSeq(s, i, i)]

\* Characters without a printable ASCII form.
NBSP == "<U+00A0>"
BOM == "<U+FEFF>"
LS == "<U+2028>"
PS == "<U+2029>"
Euro == "€"
Pound == "£"
Dollar == "$"
Quote == "\""
Backslash == "\\"
NL == "\n"
CR == "\r"
TAB == "\t"
FF == "\f"
BS == "<U+0008>"
Backtick == "<U+0060>"

\* ECMAScript WhiteSpace and LineTerminator: what \s matches and trim() strips.
WsChars == {" ", TAB, NL, CR, FF, NBSP, BOM, LS, PS}

\* ECMAScript LineTerminator: what '.' does not match and where ^ and $ match
\* under the m flag.
LineTerms == {NL, CR, LS, PS}

DigitChars == {"0", "1", "2", "3", "4", "5", "6", "7", "8", "9"}

UpperSeq == Chars("ABCDEFGHIJKLMNOPQRSTUVWXYZ")
LowerSeq == Chars("abcdefghijklmnopqrstuvwxyz")
UpperChars == {UpperSeq[i] : i \in 1..26}
LowerChars == {LowerSeq[i] : i \in 1..26}
LetterChars == UpperChars \cup LowerChars

\* \w of a regular expression (without the u flag).
WordChars == LetterChars \cup DigitChars \cup {"_"}

\* The i flag: letters compare by their lower-case form.
ToLower(c) ==
  IF c \in UpperChars THEN LowerSeq[CHOOSE i \in 1..26 : UpperSeq[i] = c] ELSE c

LowerStr(s) == [i \in 1..Len(s) |-> ToLower(s[i])]

\* s.slice(i-1, j) in 1-based inclusive positions, empty when out of range.
Slice(s, i, j) == IF i > j THEN <<>> ELSE SubSeq(s, i, j)

DropFirst(s, n) == Slice(s, n + 1, Len(s))

\* Does the word w occur in s at position i?
MatchAt(s, i, w) == i >= 1 /\ i + Len(w) - 1 <= Len(s) /\ SubSeq(s, i, i + Len(w) - 1) = w

MatchAtCI(s, i, w) ==
  i >= 1 /\ i + Len(w) - 1 <= Len(s) /\ LowerStr(SubSeq(s, i, i + Len(w) - 1)) = LowerStr(w)

\* s.startsWith(w)
StartsWith(s, w) == MatchAt(s, 1, w)

\* s.indexOf(c) and s.lastIndexOf(c) as 1-based positions, 0 for -1.
IndexOf(s, c) ==
  IF \E i \in 1..Len(s) : s[i] = c
  THEN CHOOSE i \in 1..Len(s) : s[i] = c /\ \A j \in 1..(i - 1) : s[j] # c
  ELSE 0

LastIndexOf(s, c) ==
  IF \E i \in 1..Len(s) : s[i] = c
  THEN CHOOSE i \in 1..Len(s) : s[i] = c /\ \A j \in (i + 1)..Len(s) : s[j] # c
  ELSE 0

\* The first position >= i of s that holds a character outside cs (Len(s)+1 if
\* none): where a greedy cs* that starts at i ends.
SkipSet(s, i, cs) ==
  IF \E k \in i..Len(s) : s[k] \notin cs
  THEN CHOOSE k \in i..Len(s) : s[k] \notin cs /\ \A j \in i..(k - 1) : s[j] \in cs
  ELSE Len(s) + 1

SkipWs(s, i) == SkipSet(s, i, WsChars)

\* s.trim()
Trim(s) ==
  LET a == SkipWs(s, 1)
  IN  IF a > Len(s) THEN <<>>
      ELSE LET b == CHOOSE k \in a..Len(s) :
                      s[k] \notin WsChars /\ \A j \in (k + 1)..Len(s) : s[j] \in WsChars
           IN  SubSeq(s, a, b)

\* A left-to-right scan of the positions lo..hi of s: Step(st, s, i) is the
\* state after position i. The range is halved so that the evaluation nests
\* only logarithmically deep; the left half is evaluated before the right.
RECURSIVE ScanRange(_, _, _, _, _)
ScanRange(Step(_, _, _), s, lo, hi, st) ==
  IF lo > hi THEN st
  ELSE IF lo = hi THEN Step(st, s, lo)
  ELSE LET mid == (lo + hi) \div 2
           left == ScanRange(Step, s, lo, mid, st)
       IN  IF left = left THEN ScanRange(Step, s, mid + 1, hi, left) ELSE st

Scan(Step(_, _, _), s, st) == ScanRange(Step, s, 1, Len(s), st)

\* The state of a global replace: the text written so far and the position
\* where the search for the next match resumes.
ReplaceStart == [out |-> <<>>, next |-> 1]

\* All strings over cs of length at most n.
RECURSIVE StringsUpTo(_, _)
StringsUpTo(cs, n) ==
  IF n = 0 THEN {<<>>}
  ELSE LET shorter == StringsUpTo(cs, n - 1)
       IN  shorter \cup {Append(s, c) : s \in {t \in shorter : Len(t) = n - 1}, c \in cs}

(***************************************************************************)
(* app/api/extract/route.ts: the sanitizer                                 *)
(***************************************************************************)

\* EscStep with the "continue" after the escape of a line break forgotten: the
\* line break is written after its escape.
EscStepNoContinue(st, s, i) ==
  IF st.esc THEN [out |-> Append(st.out, s[i]), inStr |-> st.inStr, esc |-> FALSE]
  ELSE IF s[i] = Backslash THEN [out |-> Append(st.out, s[i]), inStr |-> st.inStr, esc |-> TRUE]
  ELSE IF s[i] = Quote THEN [out |-> Append(st.out, s[i]), inStr |-> ~st.inStr, esc |-> FALSE]
  ELSE IF st.inStr /\ s[i] \in {NL, CR}
       THEN [out |-> st.out \o <<Backslash, "n", s[i]>>, inStr |-> st.inStr, esc |-> FALSE]
  ELSE [out |-> Append(st.out, s[i]), inStr |-> st.inStr, esc |-> FALSE]

\* The state of the scan of escapeNewlinesInQuotedStrings after one more
\* character: what it has written, whether it is inside a quoted string and
\* whether the previous character was an escaping backslash.
EscStep(st, s, i) ==
  IF st.esc THEN [out |-> Append(st.out, s[i]), inStr |-> st.inStr, esc |-> FALSE]
  ELSE IF s[i] = Backslash THEN [out |-> Append(st.out, s[i]), inStr |-> st.inStr, esc |-> TRUE]
  ELSE IF s[i] = Quote THEN [out |-> Append(st.out, s[i]), inStr |-> ~st.inStr, esc |-> FALSE]
  ELSE IF st.inStr /\ s[i] \in {NL, CR}
       THEN [out |-> st.out \o <<Backslash, "n">>, inStr |-> st.inStr, esc |-> FALSE]
  ELSE [out |-> Append(st.out, s[i]), inStr |-> st.inStr, esc |-> FALSE]

escapeNewlinesInQuotedStrings(s) ==
  Scan(EscStep, s, [out |-> <<>>, inStr |-> FALSE, esc |-> FALSE]).out

\* The fence strip of sanitizeJsonString: the opening fence with an optional
\* "json" and the white space after it, then a closing fence at the very end,
\* then trim(); for an s that starts with a fence.
Fence == <<Backtick, Backtick, Backtick>>

StripFences(s) ==
  LET afterTicks == IF MatchAtCI(s, 4, Chars("json")) THEN 8 ELSE 4
      opened == DropFirst(s, SkipWs(s, afterTicks) - 1)
      closed == IF Len(opened) >= 3 /\ MatchAt(opened, Len(opened) - 2, Fence)
                THEN SubSeq(opened, 1, Len(opened) - 3)
                ELSE opened
  IN  Trim(closed)

\* The end of the match of (?:w1|w2|...) at i, trying the words in order;
\* 0 when none matches.
RECURSIVE AltEnd(_, _, _)
AltEnd(s, i, ws) ==
  IF ws = <<>> THEN 0
  ELSE IF MatchAtCI(s, i, Head(ws)) THEN i + Len(Head(ws))
  ELSE AltEnd(s, i, Tail(ws))

LeadInWords == <<Chars("json"), Chars("output"), Chars("result"), Chars("response")>>

\* The tail of the lead-in expression from position i on:
\* (?:the\s+)?(?:json|output|result|response)\s*:?\s* . The position after
\* the match, 0 when there is none.
LeadInTail(s, i) ==
  LET theEnd == IF MatchAtCI(s, i, Chars("the")) /\ SkipWs(s, i + 3) > i + 3
                THEN SkipWs(s, i + 3) ELSE 0
      withThe == IF theEnd = 0 THEN 0 ELSE AltEnd(s, theEnd, LeadInWords)
      word == IF withThe # 0 THEN withThe ELSE AltEnd(s, i, LeadInWords)
  IN  IF word = 0 THEN 0
      ELSE LET a == SkipWs(s, word)
               b == IF a <= Len(s) /\ s[a] = ":" THEN a + 1 ELSE a
           IN  SkipWs(s, b)

\* The position after the match of
\* the lead-in expression (optional white space, optional "here is" in either
\* spelling, optional "the", one of the four words, optional colon) at the
\* start of s, 0 when it does not match.
LeadInEnd(s) ==
  LET a == SkipWs(s, 1)
      hereEnd == IF MatchAtCI(s, a, Chars("here's")) THEN a + 6
                 ELSE IF MatchAtCI(s, a, Chars("here is")) THEN a + 7
                 ELSE 0
      afterHere == IF hereEnd # 0 /\ SkipWs(s, hereEnd) > hereEnd
                   THEN LeadInTail(s, SkipWs(s, hereEnd)) ELSE 0
  IN  IF afterHere # 0 THEN afterHere ELSE LeadInTail(s, a)

StripLeadIn(s) == IF LeadInEnd(s) = 0 THEN s ELSE DropFirst(s, LeadInEnd(s) - 1)

\* The position after the match of /^\s*\/\/.*$/m attempted at position i,
\* 0 when it does not match there.
LineCommentEnd(s, i) ==
  IF ~(i = 1 \/ (i <= Len(s) + 1 /\ i > 1 /\ s[i - 1] \in LineTerms)) THEN 0
  ELSE LET a == SkipWs(s, i)
       IN  IF MatchAt(s, a, <<"/", "/">>)
           THEN SkipSet(s, a + 2, {c \in {s[k] : k \in 1..Len(s)} : c \notin LineTerms})
           ELSE 0

\* s.replace(/^\s*\/\/.*$/gm, "")
LineCommentStep(st, s, i) ==
  IF i < st.next THEN st
  ELSE IF LineCommentEnd(s, i) # 0 THEN [out |-> st.out, next |-> LineCommentEnd(s, i)]
  ELSE [out |-> Append(st.out, s[i]), next |-> i + 1]

StripLineComments(s) == Scan(LineCommentStep, s, ReplaceStart).out

\* The position after the lazy match of /\/\*[\s\S]*?\*\// at i, 0 when none.
BlockCommentEnd(s, i) ==
  IF MatchAt(s, i, <<"/", "*">>) /\ \E k \in (i + 2)..Len(s) : MatchAt(s, k, <<"*", "/">>)
  THEN 2 + CHOOSE k \in (i + 2)..Len(s) :
             MatchAt(s, k, <<"*", "/">>) /\ \A j \in (i + 2)..(k - 1) : ~MatchAt(s, j, <<"*", "/">>)
  ELSE 0

\* s.replace(/\/\*[\s\S]*?\*\//g, "")
BlockCommentStep(st, s, i) ==
  IF i < st.next THEN st
  ELSE IF BlockCommentEnd(s, i) # 0 THEN [out |-> st.out, next |-> BlockCommentEnd(s, i)]
  ELSE [out |-> Append(st.out, s[i]), next |-> i + 1]

StripBlockComments(s) == Scan(BlockCommentStep, s, ReplaceStart).out

\* The BOM at the start removed, every NBSP replaced by a space.
StripBomNbsp(s) ==
  LET t == IF Len(s) > 0 /\ s[1] = BOM THEN Tail(s) ELSE s
  IN  [i \in 1..Len(t) |-> IF t[i] = NBSP THEN " " ELSE t[i]]

\* The position of the closer of a match of /,\s*([}\]])/ at i, 0 when none.
TrailingCommaCloser(s, i) ==
  IF i <= Len(s) /\ s[i] = "," /\ SkipWs(s, i + 1) <= Len(s) /\ s[SkipWs(s, i + 1)] \in {"}", "]"}
  THEN SkipWs(s, i + 1)
  ELSE 0

\* s.replace(/,\s*([}\]])/g, "$1")
TrailingCommaStep(st, s, i) ==
  IF i < st.next THEN st
  ELSE IF TrailingCommaCloser(s, i) # 0
       THEN [out |-> Append(st.out, s[TrailingCommaCloser(s, i)]),
             next |-> TrailingCommaCloser(s, i) + 1]
  ELSE [out |-> Append(st.out, s[i]), next |-> i + 1]

StripTrailingCommas(s) == Scan(TrailingCommaStep, s, ReplaceStart).out

\* /^\s*items\s*:\s*\[/.test(s)
IsBareItems(s) ==
  LET a == SkipWs(s, 1)
      b == SkipWs(s, a + 5)
      c == SkipWs(s, b + 1)
  IN  MatchAt(s, a, Chars("items")) /\ b <= Len(s) /\ s[b] = ":" /\ c <= Len(s) /\ s[c] = "["

WrapBareItems(s) ==
  IF ~StartsWith(s, <<"{">>) /\ IsBareItems(s) THEN <<"{">> \o s \o <<"}">> ELSE s

sanitizeJsonString(text) ==
  LET s0 == Trim(text)
      s1 == IF StartsWith(s0, Fence) THEN StripFences(s0) ELSE s0
      s2 == StripLeadIn(s1)
      s3 == StripBlockComments(StripLineComments(s2))
      s4 == StripBomNbsp(s3)
      s5 == StripTrailingCommas(s4)
      s6 == WrapBareItems(s5)
  IN  escapeNewlinesInQuotedStrings(s6)

(***************************************************************************)
(* JSON.parse                                                              *)
(***************************************************************************)

\* JSON white space.
JsonWs == {" ", TAB, NL, CR}

SkipJsonWs(s, i) == SkipSet(s, i, JsonWs)

\* Characters a JSON string may not hold unescaped (U+0000..U+001F).
JsonControlChars == {NL, CR, TAB, FF, BS}

HexChars == DigitChars \cup {"a", "b", "c", "d", "e", "f", "A", "B", "C", "D", "E", "F"}

\* The character a two-character escape stands for.
Unescaped(c) ==
  CASE c = "n" -> NL
    [] c = "r" -> CR
    [] c = "t" -> TAB
    [] c = "f" -> FF
    [] c = "b" -> BS
    [] OTHER -> c

NoParse == [ok |-> FALSE, pos |-> 0, val |-> <<>>]

\* A parsed value is written as a sequence of tokens: the punctuation of
\* objects and arrays, a string as its decoded characters between "<str>" and
\* "</str>" (a \u escape as "<u>" and its four digits), a number as its literal between "<num>" and "</num>", and the
\* literals true, false and null. Two texts that JSON.parse maps to the same
\* value have the same tokens (numbers are compared by their literal).

\* The number of backslashes that stand directly before position p of s, not
\* counting any before position i.
BackslashRun(s, i, p) ==
  Cardinality({j \in i..(p - 1) : \A m \in j..(p - 1) : s[m] = Backslash})

\* Is position p the second character of an escape, and is it the backslash
\* that opens one? (i is where the content of the string starts.)
IsEscaped(s, i, p) == BackslashRun(s, i, p) % 2 = 1
OpensEscape(s, i, p) == s[p] = Backslash /\ ~IsEscaped(s, i, p)

\* May position p stand in the content i..k-1 of a JSON string?
JsonStringCharOk(s, i, k, p) ==
  IF OpensEscape(s, i, p)
  THEN \/ s[p + 1] \in {Quote, Backslash, "/", "b", "f", "n", "r", "t"}
       \/ s[p + 1] = "u" /\ p + 5 <= k - 1 /\ \A m \in (p + 2)..(p + 5) : s[m] \in HexChars
  ELSE IsEscaped(s, i, p) \/ s[p] \notin JsonControlChars

\* The string whose content starts at position i (after the opening quote).
JsonStringFrom(s, i) ==
  IF ~\E k \in i..Len(s) : s[k] = Quote /\ ~IsEscaped(s, i, k) THEN NoParse
  ELSE LET k == CHOOSE k \in i..Len(s) :
                  /\ s[k] = Quote /\ ~IsEscaped(s, i, k)
                  /\ \A j \in i..(k - 1) : ~(s[j] = Quote /\ ~IsEscaped(s, i, j))
           kept == SelectSeq([j \in 1..(k - i) |-> i + j - 1], LAMBDA p : ~OpensEscape(s, i, p))
           content == [m \in 1..Len(kept) |->
                         IF ~IsEscaped(s, i, kept[m]) THEN s[kept[m]]
                         ELSE IF s[kept[m]] = "u" THEN "<u>"
                         ELSE Unescaped(s[kept[m]])]
       IN  IF \A p \in i..(k - 1) : JsonStringCharOk(s, i, k, p)
           THEN [ok |-> TRUE, pos |-> k + 1, val |-> <<"<str>">> \o content \o <<"</str>">>]
           ELSE NoParse

\* The position after the JSON number that starts at i, 0 when there is none.
JsonNumberEnd(s, i) ==
  LET a == IF i <= Len(s) /\ s[i] = "-" THEN i + 1 ELSE i
      intEnd == IF a > Len(s) \/ s[a] \notin DigitChars THEN 0
                ELSE IF s[a] = "0" THEN a + 1
                ELSE SkipSet(s, a, DigitChars)
      fracEnd == IF intEnd # 0 /\ intEnd <= Len(s) /\ s[intEnd] = "."
                 THEN IF SkipSet(s, intEnd + 1, DigitChars) > intEnd + 1
                      THEN SkipSet(s, intEnd + 1, DigitChars) ELSE 0
                 ELSE intEnd
      signEnd == IF fracEnd # 0 /\ fracEnd + 1 <= Len(s) /\ s[fracEnd + 1] \in {"+", "-"}
                 THEN fracEnd + 2 ELSE fracEnd + 1
  IN  IF fracEnd # 0 /\ fracEnd <= Len(s) /\ s[fracEnd] \in {"e", "E"}
      THEN IF SkipSet(s, signEnd, DigitChars) > signEnd
           THEN SkipSet(s, signEnd, DigitChars) ELSE 0
      ELSE fracEnd

JsonLiterals == <<Chars("true"), Chars("false"), Chars("null")>>

RECURSIVE JsonValue(_, _)
RECURSIVE JsonElements(_, _, _)
RECURSIVE JsonMembers(_, _, _)

\* The value that starts at or after position i (white space skipped).
JsonValue(s, i) ==
  LET a == SkipJsonWs(s, i)
  IN  IF a > Len(s) THEN NoParse
      ELSE IF s[a] = Quote THEN JsonStringFrom(s, a + 1)
      ELSE IF s[a] = "["
           THEN IF SkipJsonWs(s, a + 1) <= Len(s) /\ s[SkipJsonWs(s, a + 1)] = "]"
                THEN [ok |-> TRUE, pos |-> SkipJsonWs(s, a + 1) + 1, val |-> <<"[", "]">>]
                ELSE JsonElements(s, a + 1, <<"[">>)
      ELSE IF s[a] = "{"
           THEN IF SkipJsonWs(s, a + 1) <= Len(s) /\ s[SkipJsonWs(s, a + 1)] = "}"
                THEN [ok |-> TRUE, pos |-> SkipJsonWs(s, a + 1) + 1, val |-> <<"{", "}">>]
                ELSE JsonMembers(s, a + 1, <<"{">>)
      ELSE IF s[a] \in DigitChars \cup {"-"}
           THEN IF JsonNumberEnd(s, a) = 0 THEN NoParse
                ELSE [ok |-> TRUE, pos |-> JsonNumberEnd(s, a),
                      val |-> <<"<num>">> \o SubSeq(s, a, JsonNumberEnd(s, a) - 1) \o <<"</num>">>]
      ELSE IF \E k \in 1..3 : MatchAt(s, a, JsonLiterals[k])
           THEN LET k == CHOOSE k \in 1..3 : MatchAt(s, a, JsonLiterals[k])
                IN  [ok |-> TRUE, pos |-> a + Len(JsonLiterals[k]), val |-> JsonLiterals[k]]
      ELSE NoParse

\* The elements of an array from position i on, up to its closing bracket.
JsonElements(s, i, acc) ==
  LET v == JsonValue(s, i)
      b == SkipJsonWs(s, v.pos)
  IN  IF ~v.ok \/ b > Len(s) THEN NoParse
      ELSE IF s[b] = "]" THEN [ok |-> TRUE, pos |-> b + 1, val |-> acc \o v.val \o <<"]">>]
      ELSE IF s[b] = "," THEN JsonElements(s, b + 1, acc \o v.val \o <<",">>)
      ELSE NoParse

\* The members of an object from position i on, up to its closing brace.
JsonMembers(s, i, acc) ==
  LET a == SkipJsonWs(s, i)
      k == IF a <= Len(s) /\ s[a] = Quote THEN JsonStringFrom(s, a + 1) ELSE NoParse
      c == SkipJsonWs(s, k.pos)
      v == IF k.ok /\ c <= Len(s) /\ s[c] = ":" THEN JsonValue(s, c + 1) ELSE NoParse
      b == SkipJsonWs(s, v.pos)
  IN  IF ~v.ok \/ b > Len(s) THEN NoParse
      ELSE IF s[b] = "}" THEN [ok |-> TRUE, pos |-> b + 1, val |-> acc \o k.val \o <<":">> \o v.val \o <<"}">>]
      ELSE IF s[b] = "," THEN JsonMembers(s, b + 1, acc \o k.val \o <<":">> \o v.val \o <<",">>)
      ELSE NoParse

\* JSON.parse(s): ok is FALSE where it throws a SyntaxError.
JSONparse(s) ==
  LET v == JsonValue(s, 1)
  IN  IF v.ok /\ SkipJsonWs(s, v.pos) > Len(s) THEN [ok |-> TRUE, val |-> v.val]
      ELSE [ok |-> FALSE, val |-> <<>>]

(***************************************************************************)
(* app/api/extract/route.ts: the salvage                                   *)
(***************************************************************************)

\* /"name"\s*:/.test(s)
HasMarker(s, name) ==
  LET w == <<Quote>> \o Chars(name) \o <<Quote>>
  IN  \E k \in 1..Len(s) :
        MatchAt(s, k, w) /\ SkipWs(s, k + Len(w)) <= Len(s) /\ s[SkipWs(s, k + Len(w))] = ":"

LooksLikeItems(slice) == HasMarker(slice, "ModelCode") \/ HasMarker(slice, "ModelDescription")

\* ItemsStep with the quoted strings not tracked: a bracket inside a string
\* counts.
ItemsStepBracketsInStrings(st, s, i) ==
  IF st.found THEN st
  ELSE IF s[i] = "[" THEN [st EXCEPT !.depth = st.depth + 1,
                                     !.start = IF st.depth = 0 THEN i ELSE st.start]
  ELSE IF s[i] = "]"
       THEN IF st.depth - 1 = 0 /\ st.start # 0
            THEN IF LooksLikeItems(SubSeq(s, st.start, i))
                 THEN [st EXCEPT !.depth = st.depth - 1, !.found = TRUE,
                                 !.slice = SubSeq(s, st.start, i)]
                 ELSE [st EXCEPT !.depth = st.depth - 1, !.start = 0]
            ELSE [st EXCEPT !.depth = st.depth - 1]
  ELSE st

\* The state of the scan of extractLikelyItemsArray after position i; start
\* is the position of the open top-level bracket (0 for -1), and found is set
\* once the function has returned a slice.
ItemsStep(st, s, i) ==
  IF st.found THEN st
  ELSE IF st.esc THEN [st EXCEPT !.esc = FALSE]
  ELSE IF s[i] = Backslash THEN [st EXCEPT !.esc = TRUE]
  ELSE IF s[i] = Quote THEN [st EXCEPT !.inStr = ~st.inStr]
  ELSE IF st.inStr THEN st
  ELSE IF s[i] = "[" THEN [st EXCEPT !.depth = st.depth + 1,
                                     !.start = IF st.depth = 0 THEN i ELSE st.start]
  ELSE IF s[i] = "]"
       THEN IF st.depth - 1 = 0 /\ st.start # 0
            THEN IF LooksLikeItems(SubSeq(s, st.start, i))
                 THEN [st EXCEPT !.depth = st.depth - 1, !.found = TRUE,
                                 !.slice = SubSeq(s, st.start, i)]
                 ELSE [st EXCEPT !.depth = st.depth - 1, !.start = 0]
            ELSE [st EXCEPT !.depth = st.depth - 1]
  ELSE st

ItemsScanStart ==
  [inStr |-> FALSE, esc |-> FALSE, depth |-> 0, start |-> 0, found |-> FALSE, slice |-> <<>>]

extractLikelyItemsArray(s) == Scan(ItemsStep, s, ItemsScanStart)

\* The four parse blocks of tryParseJSON, in program order.
Stages == <<"direct", "object", "array", "items">>

\* NextStage with the object block and the array block in the other order.
NextStageArrayFirst(st) ==
  CASE st = "direct" -> "array"
    [] st = "array" -> "object"
    [] st = "object" -> "items"
    [] OTHER -> "return"

\* The block that follows block st in tryParseJSON ("return" after the last).
NextStage(st) ==
  CASE st = "direct" -> "object"
    [] st = "object" -> "array"
    [] st = "array" -> "items"
    [] OTHER -> "return"

\* What block st hands to JSON.parse, and whether its guard lets it parse at all.
StageText(st, clean) ==
  CASE st = "direct" -> [applies |-> TRUE, text |-> clean]
    [] st = "object" ->
         LET so == IndexOf(clean, "{")
             eo == LastIndexOf(clean, "}")
         IN  [applies |-> so # 0 /\ eo > so,
              text |-> IF so # 0 /\ eo > so THEN SubSeq(clean, so, eo) ELSE <<>>]
    [] st = "array" ->
         LET sa == IndexOf(clean, "[")
             ea == LastIndexOf(clean, "]")
         IN  [applies |-> sa # 0 /\ ea > sa,
              text |-> IF sa # 0 /\ ea > sa THEN SubSeq(clean, sa, ea) ELSE <<>>]
    [] OTHER ->
         [applies |-> extractLikelyItemsArray(clean).found,
          text |-> extractLikelyItemsArray(clean).slice]

\* What block st returns for the parsed value v: the last block wraps the
\* array as { items: arr }.
StageValue(st, v) ==
  IF st = "items"
  THEN <<"{", "<str>">> \o Chars("items") \o <<"</str>", ":">> \o v \o <<"}">>
  ELSE v

\* Catches with the try around the last JSON.parse forgotten.
CatchesAllButItems(st) == st \in {"direct", "object", "array"}

\* Is the JSON.parse of block st inside a try with an empty catch?
Catches(st) == st \in {"direct", "object", "array", "items"}

\* raw.slice(0, 2000)
DetailLimit == 2000
Detail(text) == Slice(text, 1, IF Len(text) < DetailLimit THEN Len(text) ELSE DetailLimit)

(***************************************************************************)
(* The salvage as a state machine: one call of POST from the moment the    *)
(* model has answered with the text raw.                                   *)
(***************************************************************************)

\* Bounds of the salvage inputs: every text of at most MaxRawLen characters
\* over StructChars, and over StringChars, and the texts of SalvageSamples.
MaxRawLen == 4

StructChars == {"[", "]", "{", "}", ",", "1"}
StringChars == {Quote, Backslash, NL, "a"}

FencedBodies ==
  { Chars("{\"a\":1,}"),
    Chars("[1 , ]"),
    Chars("{\"a\":[\"b\"],\n}"),
    Chars("[{\"ModelCode\":\"A1\"},]"),
    Chars("[\"\\/*\", \"*/x\",]") }

FencedSamples ==
  {Fence \o Chars("json\n") \o b \o <<NL>> \o Fence : b \in FencedBodies}
    \cup {Fence \o <<NL>> \o b \o Fence \o <<NL>> : b \in FencedBodies}

C5Raw == Chars("{items: [{ModelCode: 'A1', ModelDescription: 'x',}]}")
C5Strict == Chars("{\"items\":[{\"ModelCode\":\"A1\",\"ModelDescription\":\"x\"}]}")

SalvageSamples ==
  FencedSamples \cup
  { C5Raw,
    C5Strict,
    Chars("[{\"ModelCode\":\"A\"},{\"ModelCode\":\"B\"}]]"),
    Chars("[1] [{\"ModelDescription\" : \"d\"}] ]"),
    Chars("{x} [\"ModelCode\":]"),
    Chars("Here is the JSON: {\"a\":1}"),
    Chars("items: [1]"),
    Chars("{\"a\":\"x\ny\"}"),
    Chars("//c\n {}"),
    Chars("{\"a\":1} /* c */ x"),
    Chars("sure: {\"a\":[1,2,],} ok"),
    Chars("x [1,2] y {"),
    <<BOM>> \o Chars("{\"a\":") \o <<NBSP>> \o Chars("null}"),
    Chars("[\"a,]\"]"),
    Chars("{\"a\":\"/*x*/\"}"),
    Chars("not json at all") }

\* Bound of the texts that exercise the bracket scan: at most MaxPieces
\* pieces of ItemsPieces, one after the other.
MaxPieces == 3

ItemsPieces ==
  { Chars("]"),
    Chars("[1]"),
    Chars("[\"]\"]"),
    Chars("\"[\\\"ModelCode\\\" \""),
    Chars("[{\"ModelCode\":\"A\"},{\"ModelCode\":\"]\"}]"),
    Chars("[[{\"ModelDescription\" : \"[\"}]]"),
    Chars("{\"ModelCode\":[1]}"),
    Chars("\\\"") }

RECURSIVE PiecesUpTo(_)
PiecesUpTo(n) ==
  IF n = 0 THEN {<<>>}
  ELSE PiecesUpTo(n - 1) \cup {t \o p : t \in PiecesUpTo(n - 1), p \in ItemsPieces}

ItemsTexts == PiecesUpTo(MaxPieces)

RawInputs ==
  StringsUpTo(StructChars, MaxRawLen) \cup StringsUpTo(StringChars, MaxRawLen) \cup SalvageSamples
    \cup ItemsTexts

(***************************************************************************)
(* lib/priceExtractor.ts: the regular expressions and the helpers          *)
(***************************************************************************)

\* \b at position i of s: exactly one of s[i-1] and s[i] is a word character.
WordBoundary(s, i) ==
  LET before == i > 1 /\ i - 1 <= Len(s) /\ s[i - 1] \in WordChars
      after == i >= 1 /\ i <= Len(s) /\ s[i] \in WordChars
  IN  before # after

IsDigitAt(s, i) == i >= 1 /\ i <= Len(s) /\ s[i] \in DigitChars

SkipDigits(s, i) == SkipSet(s, i, DigitChars)

\* [.,]\d{n} at position i of s
SepDigits(s, i, n) ==
  /\ i >= 1 /\ i <= Len(s) /\ s[i] \in {".", ","}
  /\ \A k \in 1..n : IsDigitAt(s, i + k)

\* Where the greedy (?:[.,]\d{3})* that starts at i ends.
RECURSIVE ThousandsEnd(_, _)
ThousandsEnd(s, i) == IF SepDigits(s, i, 3) THEN ThousandsEnd(s, i + 4) ELSE i

CurrencySymbols == {Euro, Dollar, Pound}

CurrencyCodes == {Chars("EUR"), Chars("USD"), Chars("GBP")}

\* The position after the match at i of the first alternative of PRICE_RX,
\* [€$£]?\s?\d{1,3}(?:[.,]\d{3})*(?:[.,]\d{2})?, 0 when it does not match.
\* Each part is greedy and nothing follows the optional parts, so the first
\* path the matcher takes is the match.
PriceSymbolEnd(s, i) ==
  LET a == IF i <= Len(s) /\ s[i] \in CurrencySymbols THEN i + 1 ELSE i
      b == IF a <= Len(s) /\ s[a] \in WsChars THEN a + 1 ELSE a
  IN  IF ~IsDigitAt(s, b) THEN 0
      ELSE LET run == SkipDigits(s, b)
               c == IF run > b + 3 THEN b + 3 ELSE run
               d == ThousandsEnd(s, c)
           IN  IF SepDigits(s, d, 2) THEN d + 3 ELSE d

\* The position after the match at i of the second alternative of PRICE_RX,
\* \b(?:EUR|USD|GBP)\s*\d+(?:[.,]\d{2})?\b, 0 when it does not match: the
\* decimals are given back when no word boundary follows them.
PriceCodeEnd(s, i) ==
  IF ~(WordBoundary(s, i) /\ \E w \in CurrencyCodes : MatchAt(s, i, w)) THEN 0
  ELSE LET a == SkipWs(s, i + 3)
           b == SkipDigits(s, a)
       IN  IF b = a THEN 0
           ELSE IF SepDigits(s, b, 2) /\ WordBoundary(s, b + 3) THEN b + 3
           ELSE IF WordBoundary(s, b) THEN b
           ELSE 0

\* The position after the match of PRICE_RX at i, 0 when it does not match.
PriceEnd(s, i) == IF PriceSymbolEnd(s, i) # 0 THEN PriceSymbolEnd(s, i) ELSE PriceCodeEnd(s, i)

\* One position of a left-to-right pass of PRICE_RX with the g flag: toks are
\* the matches so far, out the text outside them.
PriceStep(st, s, i) ==
  IF i < st.next THEN st
  ELSE LET e == PriceEnd(s, i)
       IN  IF e # 0
           THEN [toks |-> Append(st.toks, SubSeq(s, i, e - 1)), out |-> st.out, next |-> e]
           ELSE [toks |-> st.toks, out |-> Append(st.out, s[i]), next |-> i + 1]

PRICE_RX(s) == Scan(PriceStep, s, [toks |-> <<>>, out |-> <<>>, next |-> 1])

\* The class [A-Z0-9._/-] under the i flag.
ModelTailChars == LetterChars \cup DigitChars \cup {".", "_", "/", "-"}

\* The position after the match of MODEL_RX at i, 0 when it does not match.
ModelEnd(s, i) ==
  IF /\ i + 2 <= Len(s)
     /\ s[i] \in LetterChars \cup DigitChars
     /\ s[i + 1] \in ModelTailChars
     /\ s[i + 2] \in ModelTailChars
  THEN SkipSet(s, i + 1, ModelTailChars)
  ELSE 0

ModelStep(st, s, i) ==
  IF i < st.next THEN st
  ELSE LET e == ModelEnd(s, i)
       IN  IF e # 0 THEN [toks |-> Append(st.toks, SubSeq(s, i, e - 1)), next |-> e]
           ELSE [toks |-> st.toks, next |-> i + 1]

\* Array.from(line.matchAll(MODEL_RX)).map((m) => m[1])
MODEL_RX(s) == Scan(ModelStep, s, [toks |-> <<>>, next |-> 1]).toks

HasChar(s, cs) == \E i \in 1..Len(s) : s[i] \in cs

\* /\bw\b/i.test(s)
HasWord(s, w) ==
  \E i \in 1..Len(s) : WordBoundary(s, i) /\ MatchAtCI(s, i, w) /\ WordBoundary(s, i + Len(w))

\* The position after the match of page\s*\d+ (i flag) at i, 0 when none.
PageNoEnd(s, i) ==
  IF ~MatchAtCI(s, i, Chars("page")) THEN 0
  ELSE LET a == SkipWs(s, i + 4)
           b == SkipDigits(s, a)
       IN  IF b > a THEN b ELSE 0

\* The position after the match of \d+\s*\/\s*\d+ at i, 0 when none.
FractionEnd(s, i) ==
  LET b == SkipDigits(s, i)
      c == SkipWs(s, b)
      d == SkipWs(s, c + 1)
      e == SkipDigits(s, d)
  IN  IF i >= 1 /\ b > i /\ c <= Len(s) /\ s[c] = "/" /\ e > d THEN e ELSE 0

BoilerplateWords ==
  { Chars("terms"), Chars("validity"), Chars("prepared for"), Chars("price list"),
    Chars("trade price"), Chars("copyright") }

isBoilerplate(l) ==
  \/ \E i \in 1..Len(l) :
       /\ WordBoundary(l, i)
       /\ \/ PageNoEnd(l, i) # 0 /\ WordBoundary(l, PageNoEnd(l, i))
          \/ \E w \in BoilerplateWords : MatchAtCI(l, i, w) /\ WordBoundary(l, i + Len(w))
  \/ SkipWs(l, 1) > Len(l)
  \/ FractionEnd(l, SkipWs(l, 1)) = Len(l) + 1

\* Every token is taken for a price.
AlwaysLikelyPrice(t) == TRUE

isLikelyPrice(t) ==
  LET s == Trim(t)
      dec == \E i \in 1..Len(s) : SepDigits(s, i, 2) /\ WordBoundary(s, i + 3)
      sym == HasChar(s, CurrencySymbols) \/ \E w \in CurrencyCodes : HasWord(s, w)
      year == \E i \in 1..Len(s) :
                /\ WordBoundary(s, i) /\ MatchAt(s, i, <<"2", "0">>)
                /\ IsDigitAt(s, i + 2) /\ IsDigitAt(s, i + 3) /\ WordBoundary(s, i + 4)
      pageish ==
        \/ \E i \in 1..Len(s) : PageNoEnd(s, i) # 0
        \/ \E i \in 1..Len(s) :
             WordBoundary(s, i) /\ FractionEnd(s, i) # 0 /\ WordBoundary(s, FractionEnd(s, i))
  IN  (sym \/ dec) /\ ~year /\ ~pageish

\* The value of a sequence of decimal digits.
DigitValue(c) == CHOOSE d \in 0..9 : Chars("0123456789")[d + 1] = c

RECURSIVE DigitsValue(_)
DigitsValue(ds) ==
  IF ds = <<>> THEN 0
  ELSE 10 * DigitsValue(SubSeq(ds, 1, Len(ds) - 1)) + DigitValue(ds[Len(ds)])

AllDigits(s) == \A i \in 1..Len(s) : s[i] \in DigitChars

\* x.replace(".", "") / x.replace(",", ""): only the first occurrence goes.
WithoutFirst(s, cs) ==
  IF \E i \in 1..Len(s) : s[i] \in cs
  THEN LET k == CHOOSE i \in 1..Len(s) : s[i] \in cs /\ \A j \in 1..(i - 1) : s[j] \notin cs
       IN  SubSeq(s, 1, k - 1) \o SubSeq(s, k + 1, Len(s))
  ELSE s

Without(s, cs) == SelectSeq(s, LAMBDA c : c \notin cs)

\* parseFloat(x) in place of Number(x): the longest numeric prefix is read
\* and what follows it is ignored.
NumberPrefixOf(x) ==
  LET neg == x # <<>> /\ x[1] = "-"
      u == IF neg THEN Tail(x) ELSE x
      wholeEnd == SkipDigits(u, 1)
      whole == SubSeq(u, 1, wholeEnd - 1)
      fracEnd == IF wholeEnd <= Len(u) /\ u[wholeEnd] = "." THEN SkipDigits(u, wholeEnd + 1)
                 ELSE wholeEnd + 1
      frac == SubSeq(u, wholeEnd + 1, fracEnd - 1)
  IN  [ ok |-> x = <<>> \/ Len(whole) + Len(frac) > 0,
        neg |-> neg, whole |-> whole, frac |-> frac ]

\* Number(x) for a text x of digits, dots, commas and minus signs: the sign,
\* the digits before the point and the digits after it; ok is FALSE for NaN.
\* The empty text is 0.
NumberOf(x) ==
  LET neg == x # <<>> /\ x[1] = "-"
      u == IF neg THEN Tail(x) ELSE x
      dot == IndexOf(u, ".")
      whole == IF dot = 0 THEN u ELSE SubSeq(u, 1, dot - 1)
      frac == IF dot = 0 THEN <<>> ELSE DropFirst(u, dot)
  IN  [ ok |-> \/ x = <<>>
               \/ AllDigits(whole) /\ AllDigits(frac) /\ Len(whole) + Len(frac) > 0,
        neg |-> neg, whole |-> whole, frac |-> frac ]

\* Math.round(v) in place of Math.round(v * 100) / 100: the value is rounded
\* to whole units (given in hundredths).
RoundToUnits(neg, whole, frac) ==
  LET d(k) == IF k <= Len(frac) THEN DigitValue(frac[k]) ELSE 0
      more == \E k \in 2..Len(frac) : frac[k] # "0"
  IN  IF ~neg THEN 100 * (DigitsValue(whole) + (IF d(1) >= 5 THEN 1 ELSE 0))
      ELSE 0 - 100 * (DigitsValue(whole) + (IF d(1) > 5 \/ (d(1) = 5 /\ more) THEN 1 ELSE 0))

\* Math.round(v * 100) for v the decimal number whole.frac (negated when neg),
\* in hundredths: Math.round takes a half towards plus infinity. The digits
\* are read exactly; the binary product v * 100 of the source can fall on the
\* other side of a half only when the third digit after the point is the last
\* non-zero one and is 5.
RoundToCents(neg, whole, frac) ==
  LET d(k) == IF k <= Len(frac) THEN DigitValue(frac[k]) ELSE 0
      base == 100 * DigitsValue(whole) + 10 * d(1) + d(2)
      more == \E k \in 4..Len(frac) : frac[k] # "0"
  IN  IF ~neg THEN base + (IF d(3) >= 5 THEN 1 ELSE 0)
      ELSE 0 - (base + (IF d(3) > 5 \/ (d(3) = 5 /\ more) THEN 1 ELSE 0))

\* parseMoney, in hundredths of the currency unit.
parseMoney(s) ==
  LET \* const n = Number(x); if (!Number.isFinite(n)) return 0
      round(negative, n) ==
        IF ~n.ok THEN 0 ELSE RoundToCents(negative # n.neg, n.whole, n.frac)
      \* x = x.replace(",", ".")
      point(negative, x) ==
        round(negative,
              NumberOf(IF IndexOf(x, ",") = 0 THEN x ELSE [x EXCEPT ![IndexOf(x, ",")] = "."]))
      \* with both a comma and a dot, the separator that comes last is the
      \* decimal one and the other is removed
      thousands(negative, x) ==
        point(negative,
              IF HasChar(x, {","}) /\ HasChar(x, {"."})
              THEN IF LastIndexOf(x, ",") > LastIndexOf(x, ".")
                   THEN Without(x, {"."})
                   ELSE Without(x, {","})
              ELSE x)
      \* if (!x) return 0; const negative = /^-/.test(x); x = x.replace(/^-/, "")
      sign(x) ==
        IF x = <<>> THEN 0
        ELSE thousands(x[1] = "-", IF x[1] = "-" THEN Tail(x) ELSE x)
  IN  sign(Trim(SelectSeq(s, LAMBDA c : c \in DigitChars \cup {".", ",", "-"})))

\* /w\b/i.test(txt)
HasCodeEnding(txt, w) ==
  \E i \in 1..Len(txt) : MatchAtCI(txt, i, w) /\ WordBoundary(txt, i + Len(w))

currencyFromText(txt) ==
  IF HasChar(txt, {Euro}) \/ HasCodeEnding(txt, Chars("EUR")) THEN "EUR"
  ELSE IF HasChar(txt, {Dollar}) \/ HasCodeEnding(txt, Chars("USD")) THEN "USD"
  ELSE IF HasChar(txt, {Pound}) \/ HasCodeEnding(txt, Chars("GBP")) THEN "GBP"
  ELSE IF ~HasChar(txt, CurrencySymbols) THEN "EUR"
  ELSE LET m == txt[CHOOSE i \in 1..Len(txt) :
                      txt[i] \in CurrencySymbols /\ \A j \in 1..(i - 1) : txt[j] \notin CurrencySymbols]
       IN  IF m = Euro THEN "EUR" ELSE IF m = Dollar THEN "USD" ELSE "GBP"

\* labelFromContext with the two tests in the other order: a T2 word wins.
labelFromContextT2First(context) ==
  IF \E w \in {Chars("net"), Chars("dealer"), Chars("trade"), Chars("discount"), Chars("offer")} :
       HasWord(context, w)
  THEN "T2"
  ELSE IF \E w \in {Chars("MSRP"), Chars("list"), Chars("retail")} : HasWord(context, w) THEN "T1"
  ELSE "T2"

labelFromContext(context) ==
  IF \E w \in {Chars("MSRP"), Chars("list"), Chars("retail")} : HasWord(context, w) THEN "T1"
  ELSE IF \E w \in {Chars("net"), Chars("dealer"), Chars("trade"), Chars("discount"), Chars("offer")} :
            HasWord(context, w)
       THEN "T2"
  ELSE "T2"

\* text.split(/\r?\n/): a line ends at each \n, and a \r right before it
\* belongs to the separator.
SplitStep(st, s, i) ==
  IF s[i] = NL
  THEN [ done |-> Append(st.done,
                         IF st.cur # <<>> /\ st.cur[Len(st.cur)] = CR
                         THEN SubSeq(st.cur, 1, Len(st.cur) - 1)
                         ELSE st.cur),
         cur |-> <<>> ]
  ELSE [done |-> st.done, cur |-> Append(st.cur, s[i])]

SplitLines(text) ==
  LET st == Scan(SplitStep, text, [done |-> <<>>, cur |-> <<>>])
  IN  Append(st.done, st.cur)

MapTrim(ls) == [i \in 1..Len(ls) |-> Trim(ls[i])]

RECURSIVE JoinWith(_, _)
JoinWith(ls, sep) ==
  IF ls = <<>> THEN <<>>
  ELSE IF Len(ls) = 1 THEN ls[1]
  ELSE JoinWith(SubSeq(ls, 1, Len(ls) - 1), sep) \o sep \o ls[Len(ls)]

\* slice(0, n) where slice(-n) is meant: the first n, not the last n.
SliceFromStart(ls, n) == IF Len(ls) <= n THEN ls ELSE SubSeq(ls, 1, n)

\* ls.slice(-n)
LastN(ls, n) == IF Len(ls) <= n THEN ls ELSE SubSeq(ls, Len(ls) - n + 1, Len(ls))

\* ls.slice(0, n)
FirstN(ls, n) == IF Len(ls) <= n THEN ls ELSE SubSeq(ls, 1, n)

\* lines.slice(0, 50) of guessMetaFromText
TopLines == 50

\* The class [A-Z0-9 ()&.,/-] of capLines.
CapLineChars == UpperChars \cup DigitChars \cup {" ", "(", ")", "&", ".", ",", "/", "-"}

\* /^[A-Z0-9 ()&.,/-]{6,}$/.test(l) && !/PRICE\s*LIST/i.test(l)
IsCapLine(l) ==
  /\ Len(l) >= 6
  /\ \A i \in 1..Len(l) : l[i] \in CapLineChars
  /\ ~\E i \in 1..Len(l) :
        MatchAtCI(l, i, Chars("PRICE")) /\ MatchAtCI(l, SkipWs(l, i + 5), Chars("LIST"))

\* l.replace(/\s*[.,:;-]+$/, ""): the punctuation the line ends with goes, and
\* the white space before it.
StripTrailingPunct(l) ==
  LET punct == {".", ",", ":", ";", "-"}
      keep == IF \E k \in 1..Len(l) : l[k] \notin punct
              THEN CHOOSE k \in 1..Len(l) :
                     l[k] \notin punct /\ \A j \in (k + 1)..Len(l) : l[j] \in punct
              ELSE 0
      body == SubSeq(l, 1, keep)
      text == IF body = <<>> \/ \A k \in 1..Len(body) : body[k] \in WsChars THEN 0
              ELSE CHOOSE k \in 1..Len(body) :
                     body[k] \notin WsChars /\ \A j \in (k + 1)..Len(body) : body[j] \in WsChars
  IN  IF keep = Len(l) THEN l ELSE SubSeq(l, 1, text)

\* The first of the longest lines of ls: what sort((a, b) => b.length -
\* a.length)[0] is, the sort being stable.
Longest(ls) ==
  ls[CHOOSE i \in 1..Len(ls) :
       /\ \A j \in 1..Len(ls) : Len(ls[j]) <= Len(ls[i])
       /\ \A j \in 1..(i - 1) : Len(ls[j]) < Len(ls[i])]

DateSeps == {"-", "/", "."}

\* (0[1-9]|1[0-2]) at i
IsMonthAt(s, i) ==
  /\ IsDigitAt(s, i) /\ IsDigitAt(s, i + 1)
  /\ \/ s[i] = "0" /\ s[i + 1] # "0"
     \/ s[i] = "1" /\ s[i + 1] \in {"0", "1", "2"}

\* (0[1-9]|[12]\d|3[01]) at i
IsDayAt(s, i) ==
  /\ IsDigitAt(s, i) /\ IsDigitAt(s, i + 1)
  /\ \/ s[i] = "0" /\ s[i + 1] # "0"
     \/ s[i] \in {"1", "2"}
     \/ s[i] = "3" /\ s[i + 1] \in {"0", "1"}

\* 20\d{2} at i
IsYearAt(s, i) == MatchAt(s, i, <<"2", "0">>) /\ IsDigitAt(s, i + 2) /\ IsDigitAt(s, i + 3)

IsSepAt(s, i) == i >= 1 /\ i <= Len(s) /\ s[i] \in DateSeps

\* The position after the match at i of the year-first date of dateMatch, 0
\* when none; then the day-first date; then the month name and year.
IsoDateEnd(s, i) ==
  IF /\ WordBoundary(s, i) /\ IsYearAt(s, i) /\ IsSepAt(s, i + 4) /\ IsMonthAt(s, i + 5)
     /\ IsSepAt(s, i + 7) /\ IsDayAt(s, i + 8) /\ WordBoundary(s, i + 10)
  THEN i + 10 ELSE 0

DayFirstDateEnd(s, i) ==
  IF /\ WordBoundary(s, i) /\ IsDayAt(s, i) /\ IsSepAt(s, i + 2) /\ IsMonthAt(s, i + 3)
     /\ IsSepAt(s, i + 5) /\ IsYearAt(s, i + 6) /\ WordBoundary(s, i + 10)
  THEN i + 10 ELSE 0

MonthNames ==
  { Chars("Jan"), Chars("Feb"), Chars("Mar"), Chars("Apr"), Chars("May"), Chars("Jun"),
    Chars("Jul"), Chars("Aug"), Chars("Sep"), Chars("Oct"), Chars("Nov"), Chars("Dec") }

MonthYearEnd(s, i) ==
  IF ~(WordBoundary(s, i) /\ \E m \in MonthNames : MatchAtCI(s, i, m)) THEN 0
  ELSE LET a == SkipSet(s, i + 3, LetterChars)
           b == SkipWs(s, a)
       IN  IF b > a /\ IsYearAt(s, b) /\ WordBoundary(s, b + 4) THEN b + 4 ELSE 0

\* top.match(rx)?.[0] for the expression whose match at i ends at End(s, i):
\* the leftmost match, the empty text when there is none.
FirstMatch(End(_, _), s) ==
  IF \E i \in 1..Len(s) : End(s, i) # 0
  THEN LET i == CHOOSE k \in 1..Len(s) : End(s, k) # 0 /\ \A j \in 1..(k - 1) : End(s, j) = 0
       IN  SubSeq(s, i, End(s, i) - 1)
  ELSE <<>>

\* guessMetaFromText: a field is the empty text where the source has undefined
\* (every use of a field is "meta.x || guessed.x || ''").
guessMetaFromText(text) ==
  LET lines == SelectSeq(MapTrim(SplitLines(text)), LAMBDA l : l # <<>>)
      top == JoinWith(FirstN(lines, TopLines), <<NL>>)
      capLines == SelectSeq(SplitLines(top), IsCapLine)
      mfg == IF capLines = <<>> THEN <<>> ELSE Trim(StripTrailingPunct(Longest(capLines)))
      validity ==
        IF FirstMatch(IsoDateEnd, top) # <<>> THEN FirstMatch(IsoDateEnd, top)
        ELSE IF FirstMatch(DayFirstDateEnd, top) # <<>> THEN FirstMatch(DayFirstDateEnd, top)
        ELSE FirstMatch(MonthYearEnd, top)
  IN  [supplier |-> mfg, manufacturer |-> mfg, validityDate |-> validity]

\* b || a: the second operand is preferred.
OrElseSecond(a, b) == IF b # <<>> THEN b ELSE a

\* a || b for texts
OrElse(a, b) == IF a # <<>> THEN a ELSE b

\* makeRow with the Cost fields of the two tiers exchanged.
makeRowCostInOtherTier(meta, currency, modelCode, desc, priceValue, tier) ==
  LET description == OrElse(Trim(desc), modelCode)
  IN  [ Supplier |-> OrElse(meta.supplier, <<>>),
        Manufacturer |-> OrElse(meta.manufacturer, <<>>),
        ModelCode |-> modelCode,
        ModelDescription |-> description,
        T1List |-> IF tier = "T1" THEN priceValue ELSE 0,
        T1Cost |-> IF tier = "T1" THEN 0 ELSE priceValue,
        T2List |-> IF tier = "T1" THEN 0 ELSE priceValue,
        T2Cost |-> IF tier = "T1" THEN priceValue ELSE 0,
        ISOCurrency |-> currency,
        ValidityDate |-> OrElse(meta.validityDate, <<>>),
        T1orT2 |-> tier,
        MaterialID |-> modelCode,
        SAPNumber |-> modelCode,
        ModelDescriptionEnglish |-> description,
        ModelDescriptionLanguage2 |-> "LANGUAGE 2",
        ModelDescriptionLanguage3 |-> "LANGUAGE 3",
        ModelDescriptionLanguage4 |-> "LANGUAGE 4",
        QuoteOrPriceList |-> "Price List",
        WeightKg |-> 0, HeightMm |-> 0, LengthMm |-> 0, WidthMm |-> 0, PowerWatts |-> 0,
        FileName |-> meta.fileName ]

makeRow(meta, currency, modelCode, desc, priceValue, tier) ==
  LET description == OrElse(Trim(desc), modelCode)
  IN  [ Supplier |-> OrElse(meta.supplier, <<>>),
        Manufacturer |-> OrElse(meta.manufacturer, <<>>),
        ModelCode |-> modelCode,
        ModelDescription |-> description,
        T1List |-> IF tier = "T1" THEN priceValue ELSE 0,
        T1Cost |-> IF tier = "T1" THEN priceValue ELSE 0,
        T2List |-> IF tier = "T1" THEN 0 ELSE priceValue,
        T2Cost |-> IF tier = "T1" THEN 0 ELSE priceValue,
        ISOCurrency |-> currency,
        ValidityDate |-> OrElse(meta.validityDate, <<>>),
        T1orT2 |-> tier,
        MaterialID |-> modelCode,
        SAPNumber |-> modelCode,
        ModelDescriptionEnglish |-> description,
        ModelDescriptionLanguage2 |-> "LANGUAGE 2",
        ModelDescriptionLanguage3 |-> "LANGUAGE 3",
        ModelDescriptionLanguage4 |-> "LANGUAGE 4",
        QuoteOrPriceList |-> "Price List",
        WeightKg |-> 0, HeightMm |-> 0, LengthMm |-> 0, WidthMm |-> 0, PowerWatts |-> 0,
        FileName |-> meta.fileName ]

\* toBuffer: a Buffer is passed on as it is; of the other inputs the empty
\* one is refused.
toBuffer(input) ==
  IF input.kind = "Buffer" THEN [ok |-> TRUE]
  ELSE IF input.byteLength = 0 THEN [ok |-> FALSE, error |-> "Uploaded PDF is empty (0 bytes)."]
  ELSE [ok |-> TRUE]

\* The decimal digits of a natural number.
RECURSIVE NatDigits(_)
NatDigits(n) ==
  IF n < 10 THEN <<Chars("0123456789")[n + 1]>>
  ELSE Append(NatDigits(n \div 10), Chars("0123456789")[(n % 10) + 1])

\* String(v) for an amount v of c hundredths: no trailing zero after the point.
AmountToString(c) ==
  LET a == IF c < 0 THEN 0 - c ELSE c
      sign == IF c < 0 THEN <<"-">> ELSE <<>>
      frac == IF a % 100 = 0 THEN <<>>
              ELSE IF a % 10 = 0 THEN <<".">> \o NatDigits((a % 100) \div 10)
              ELSE <<".">> \o NatDigits((a % 100) \div 10) \o NatDigits(a % 10)
  IN  sign \o NatDigits(a \div 100) \o frac

\* s.replace(/\s+/g, " ")
SpacesStep(st, s, i) ==
  IF s[i] \notin WsChars THEN Append(st, s[i])
  ELSE IF i > 1 /\ s[i - 1] \in WsChars THEN st
  ELSE Append(st, " ")

NormalizeSpaces(s) == Scan(SpacesStep, s, <<>>)

\* Program constants of extractFromPdf.
KeyPrefix == 80
CodesWindow == 6
DescWindow == 6
DescTail == 3
TierTail == 4

dedupKey(r) ==
  JoinWith(<< Trim(r.ModelCode),
              FirstN(Trim(NormalizeSpaces(r.ModelDescription)), KeyPrefix),
              Chars(r.T1orT2),
              AmountToString(IF r.T1List # 0 THEN r.T1List ELSE r.T2List),
              Chars(r.ISOCurrency) >>,
           <<"|">>)

\* DedupStep with the later row of a key taking the place of the earlier one.
DedupStepLastWins(st, rs, i) ==
  IF dedupKey(rs[i]) \in st.seen
  THEN [ seen |-> st.seen,
         kept |-> [j \in 1..Len(st.kept) |->
                     IF dedupKey(st.kept[j]) = dedupKey(rs[i]) THEN rs[i] ELSE st.kept[j]] ]
  ELSE [seen |-> st.seen \cup {dedupKey(rs[i])}, kept |-> Append(st.kept, rs[i])]

\* The callback of rows.filter: a row stays unless its key has been seen.
DedupStep(st, rs, i) ==
  IF dedupKey(rs[i]) \in st.seen THEN st
  ELSE [seen |-> st.seen \cup {dedupKey(rs[i])}, kept |-> Append(st.kept, rs[i])]

deduped(rs) == Scan(DedupStep, rs, [seen |-> {}, kept |-> <<>>]).kept

\* pushContext without the test for a letter and a digit: every match of
\* MODEL_RX is a code.
pushContextAnyCode(ctx, line) ==
  LET codes == MODEL_RX(line)
      cleaned == Trim(PRICE_RX(line).out)
      pushed == Append(ctx.desc, cleaned)
  IN  [ codes |-> IF codes # <<>> THEN LastN(codes, CodesWindow) ELSE ctx.codes,
        desc |-> IF cleaned = <<>> THEN ctx.desc
                 ELSE IF Len(pushed) > DescWindow THEN Tail(pushed)
                 ELSE pushed ]

\* pushContext with the identifiers forgotten at a line that has none.
pushContextResetCodes(ctx, line) ==
  LET codes == SelectSeq(MODEL_RX(line),
                         LAMBDA c : HasChar(c, LetterChars) /\ HasChar(c, DigitChars))
      cleaned == Trim(PRICE_RX(line).out)
      pushed == Append(ctx.desc, cleaned)
  IN  [ codes |-> LastN(codes, CodesWindow),
        desc |-> IF cleaned = <<>> THEN ctx.desc
                 ELSE IF Len(pushed) > DescWindow THEN Tail(pushed)
                 ELSE pushed ]

\* pushContext with the windows left to grow: no slice(-6), no shift().
pushContextUnbounded(ctx, line) ==
  LET codes == SelectSeq(MODEL_RX(line),
                         LAMBDA c : HasChar(c, LetterChars) /\ HasChar(c, DigitChars))
      cleaned == Trim(PRICE_RX(line).out)
  IN  [ codes |-> IF codes # <<>> THEN codes ELSE ctx.codes,
        desc |-> IF cleaned = <<>> THEN ctx.desc ELSE Append(ctx.desc, cleaned) ]

\* pushContext: ctx.codes is contextCodes and ctx.desc is contextDesc.
pushContext(ctx, line) ==
  LET codes == SelectSeq(MODEL_RX(line),
                         LAMBDA c : HasChar(c, LetterChars) /\ HasChar(c, DigitChars))
      cleaned == Trim(PRICE_RX(line).out)
      pushed == Append(ctx.desc, cleaned)
  IN  [ codes |-> IF codes # <<>> THEN LastN(codes, CodesWindow) ELSE ctx.codes,
        desc |-> IF cleaned = <<>> THEN ctx.desc
                 ELSE IF Len(pushed) > DescWindow THEN Tail(pushed)
                 ELSE pushed ]

\* rows with the row left out, put first.
UnshiftRow(rs, row) == <<row>> \o rs

\* rows.push(row)
PushRow(rs, row) == Append(rs, row)

\* No identifier is substituted.
NoItemCode(n) == <<>>

\* The synthetic identifier ITEM_<n>.
ItemCode(n) == Chars("ITEM_") \o NatDigits(n)

\* No token is junk.
NeverJunk(price) == FALSE

\* if (price === 0) continue
IsJunk(price) == price = 0

\* One token of the inner loop of extractFromPdf. st.rows is rows; st.log is
\* the history of the tokens handled; st.ctx, st.line and st.lineNo are the
\* context, the line and its number, st.meta and st.currency the merged meta
\* and the currency. A row carries, as "at", the line and the token it comes
\* from: its identity among rows that are equal field by field.
TokenStep(st, toks, j) ==
  LET hasCode == st.ctx.codes # <<>>
      joined == JoinWith(LastN(st.ctx.desc, DescTail), <<" ">>)
      model == IF hasCode THEN st.ctx.codes[Len(st.ctx.codes)] ELSE ItemCode(Len(st.rows) + 1)
      desc == OrElse(joined, Chars("Price Item"))
      tier == labelFromContext(JoinWith(LastN(st.ctx.desc, TierTail), <<" ">>) \o <<" ">> \o st.line)
      token(price, at) ==
        [st EXCEPT
           !.log = Append(st.log, [at |-> at, token |-> toks[j], price |-> price,
                                   hasCode |-> hasCode, hasDesc |-> joined # <<>>]),
           !.rows = IF IsJunk(price) THEN st.rows
                    ELSE PushRow(st.rows,
                                 makeRow(st.meta, st.currency, model, desc, price, tier)
                                   @@ [at |-> at])]
  IN  token(parseMoney(toks[j]), <<st.lineNo, j>>)

(***************************************************************************)
(* lib/priceExtractor.ts: extractFromPdf as a state machine                *)
(***************************************************************************)

\* Bounds of the extraction inputs: the text of the document is at most
\* MaxLines lines of LinePool, joined by \n.
MaxLines == 3

LongLine ==
  Chars("XK-77 heavy duty stainless steel mounting bracket with reinforced corner plate and zinc coating GBP 7.50")

LinePool ==
  { Chars("AB-100 Widget list €10.00 €10.00"),
    Chars("€10.00\r"),
    Chars("$0.00 5,00"),
    Chars("Page 2"),
    Chars("ACME TOOLS LTD."),
    Chars("Valid 2024-03-01 net"),
    LongLine }

RECURSIVE LineSeqs(_)
LineSeqs(n) ==
  IF n = 0 THEN {<<>>}
  ELSE LET shorter == LineSeqs(n - 1)
       IN  shorter \cup {Append(ls, l) : ls \in {t \in shorter : Len(t) = n - 1}, l \in LinePool}

Texts == {JoinWith(ls, <<NL>>) : ls \in LineSeqs(MaxLines)}

\* What pdfParse does with the buffer: it resolves with a text or rejects.
PdfError == [ok |-> FALSE]
PdfTexts(ts) == {[ok |-> TRUE, text |-> t] : t \in ts}

\* The file argument: its kind and its length in bytes (0, or 1 for more).
Files == [kind : {"Buffer", "Uint8Array", "ArrayBuffer"}, byteLength : {0, 1}]

\* A document of one line, with an identifier of letters only.
ListinoText == <<Euro>> \o Chars(" 4.377,00 MODEL-X Listino")

\* The calls explored: every text with a Buffer that has bytes; with the
\* other arguments, which differ only in toBuffer, a rejection, the empty text
\* and one text.
Calls ==
  {[file |-> [kind |-> "Buffer", byteLength |-> 1], parsed |-> p] :
     p \in PdfTexts(Texts \cup {ListinoText}) \cup {PdfError}}
    \cup {[file |-> f, parsed |-> p] :
            f \in Files, p \in PdfTexts({<<>>, Chars("X1 €2.50")}) \cup {PdfError}}

Metas ==
  { [supplier |-> <<>>, manufacturer |-> <<>>, validityDate |-> <<>>, fileName |-> "a.pdf"],
    [supplier |-> Chars("S"), manufacturer |-> Chars("M"), validityDate |-> Chars("2025-01-31"),
     fileName |-> "b.pdf"],
    [supplier |-> Chars("S"), manufacturer |-> <<>>, validityDate |-> <<>>, fileName |-> "c.pdf"] }

(***************************************************************************)
(* Calls that overlap: what a call keeps for itself and what the module    *)
(* keeps for all calls                                                     *)
(***************************************************************************)

\* tryParseJSON as a function of the text: the stages in order, the first
\* that parses returns.
RECURSIVE tryParseFrom(_, _)
tryParseFrom(st, cleaned) ==
  IF st = "return" THEN [kind |-> "Fail"]
  ELSE LET parse(in) == IF in.applies THEN JSONparse(in.text) ELSE [ok |-> FALSE]
           next(p) ==
             IF p.ok THEN [kind |-> "Ok", value |-> StageValue(st, p.val)]
             ELSE tryParseFrom(NextStage(st), cleaned)
       IN  next(parse(StageText(st, cleaned)))

tryParseJSON(text) == tryParseFrom(Stages[1], sanitizeJsonString(text))

\* The lastIndex of the two module-level expressions, which carry the g flag.
ZeroIndex == [MODEL_RX |-> 0, PRICE_RX |-> 0]

\* line.replace(PRICE_RX, "") sets lastIndex to 0 before its first search, and
\* the failed search that ends it leaves lastIndex at 0.
LastIndexAfterReplace(line) == 0

\* line.matchAll(rx) searches a copy of rx, from the lastIndex of rx on, and
\* leaves rx as it is: the part of the line it sees.
SeenByMatchAll(line, lastIndexOfRx) == DropFirst(line, lastIndexOfRx)

\* The locals of extractFromPdf: rows, contextCodes and contextDesc of lines
\* 212-214 and the set seen of line 260 are made anew in every call,
\* whatever an earlier call left in its own.
EmptyLocals == [rows |-> <<>>, codes |-> <<>>, desc |-> <<>>, seen |-> {}]

\* The locals are those the call before left behind.
LocalsLeftBehind(left) == left

NewLocals(left) == EmptyLocals

\* mergedMeta of lines 197-204
mergeMeta(m, text) ==
  LET merge(guessed) ==
        [ supplier |-> OrElse(m.supplier, OrElse(guessed.supplier, <<>>)),
          manufacturer |-> OrElse(m.manufacturer, OrElse(guessed.manufacturer, <<>>)),
          validityDate |-> OrElse(m.validityDate, OrElse(guessed.validityDate, <<>>)),
          fileName |-> m.fileName ]
  IN  merge(guessMetaFromText(text))

\* One iteration of "for (const line of lines)" on the record st of the
\* locals, the lastIndex values, the meta and the currency.
LineStep(st, ls, i) ==
  LET line == ls[i]
      old == [codes |-> st.codes, desc |-> st.desc]
      done(ctx, li, out) ==
        [st EXCEPT !.rows = out.rows, !.log = out.log, !.codes = ctx.codes, !.desc = ctx.desc,
                   !.li = li]
      tokens(ctx, li) ==
        done(ctx, li,
             Scan(TokenStep,
                  SelectSeq(PRICE_RX(SeenByMatchAll(line, li.PRICE_RX)).toks, isLikelyPrice),
                  [rows |-> st.rows, log |-> st.log, ctx |-> ctx, line |-> line, lineNo |-> i,
                   meta |-> st.meta, currency |-> st.currency]))
      context(forCodes, forDesc) ==
        tokens([codes |-> forCodes.codes, desc |-> forDesc.desc],
               [st.li EXCEPT !.PRICE_RX = LastIndexAfterReplace(line)])
  IN  context(pushContext(old, SeenByMatchAll(line, st.li.MODEL_RX)), pushContext(old, line))

\* extractFromPdf from line 194 to its return, run with the locals and the
\* lastIndex values it starts from: the rows returned, and the locals and
\* lastIndex values at the return.
extractRun(text, m, locals, li) ==
  LET ls == SelectSeq(MapTrim(SplitLines(text)), LAMBDA l : l # <<>> /\ ~isBoilerplate(l))
      return(st, kept) ==
        [ rows |-> kept.kept,
          locals |-> [rows |-> st.rows, codes |-> st.codes, desc |-> st.desc, seen |-> kept.seen],
          li |-> st.li ]
      dedup(st) == return(st, Scan(DedupStep, st.rows, [seen |-> locals.seen, kept |-> <<>>]))
  IN  dedup(Scan(LineStep, ls,
                 [rows |-> locals.rows, log |-> <<>>, codes |-> locals.codes, desc |-> locals.desc,
                  li |-> li, meta |-> mergeMeta(m, text), currency |-> currencyFromText(text)]))

\* What a call returns when no other call runs.
extractAlone(text, m) == extractRun(text, m, EmptyLocals, ZeroIndex).rows

(***************************************************************************)
(* lib/priceExtractor.ts: the arguments of single calls of parseMoney and  *)
(* currencyFromText                                                        *)
(***************************************************************************)

\* Amounts with thousands groups: the leading digits, one or two groups of
\* three digits, and two digits of cents.
MoneyLeads == {Chars("4"), Chars("12"), Chars("999")}
MoneyGroups == {Chars("377"), Chars("000"), Chars("005")}
MoneyCents == {Chars("00"), Chars("05"), Chars("99")}

Amounts ==
  {[lead |-> l, groups |-> <<g>>, cents |-> c] : l \in MoneyLeads, g \in MoneyGroups, c \in MoneyCents}
    \cup {[lead |-> l, groups |-> <<g, h>>, cents |-> c] :
            l \in MoneyLeads \ {Chars("999")}, g \in MoneyGroups, h \in MoneyGroups, c \in MoneyCents}

\* "X.XXX,XX": dots between the groups, a comma before the cents.
DotForm(a) == JoinWith(<<a.lead>> \o a.groups, <<".">>) \o <<",">> \o a.cents

\* "X,XXX.XX": commas between the groups, a dot before the cents.
CommaForm(a) == JoinWith(<<a.lead>> \o a.groups, <<",">>) \o <<".">> \o a.cents

\* The amount in hundredths.
CentsOf(a) == 100 * DigitsValue(JoinWith(<<a.lead>> \o a.groups, <<>>)) + DigitsValue(a.cents)

\* Tokens that hold no number: no digits at all, or digits that do not make
\* one number once the separators are normalized.
NoNumberTokens ==
  { <<>>, Chars("abc"), Chars("-"), Chars("."), Chars(","), <<Euro>>, Chars("EUR"),
    Chars("1.2.3"), Chars("1,2,3"), Chars("1-2"), Chars("5--"), Chars("1,2.3.4") }

\* Tokens with the value, in hundredths, that Math.round(v * 100) / 100 gives.
MoneySamples ==
  { <<Chars("0,00"), 0>>, <<Chars("-0,00"), 0>>, <<Chars("7"), 700>>, <<Chars("5."), 500>>,
    <<Chars(".5"), 50>>, <<Chars("-.5"), 0 - 50>>, <<Chars("--5"), 500>>,
    <<Chars("10.50"), 1050>>, <<Chars("0,49"), 49>>, <<Chars("12,3"), 1230>>,
    <<Chars("-2.50"), 0 - 250>>, <<<<Euro>> \o Chars(" 9.99"), 999>>, <<Chars("GBP 7.5"), 750>>,
    <<Chars("0.004"), 0>>, <<Chars("0.006"), 1>>, <<Chars("1.234"), 123>>,
    <<Chars("1.236"), 124>>, <<Chars("10.499"), 1050>>, <<Chars("10.994"), 1099>>,
    <<Chars("10.996"), 1100>>, <<Chars("99.999"), 10000>>, <<Chars("-0.006"), 0 - 1>>,
    <<Chars("-1.236"), 0 - 124>>, <<Chars("1,234.567"), 123457>> }

MoneyTokens ==
  {DotForm(a) : a \in Amounts} \cup {CommaForm(a) : a \in Amounts}
    \cup NoNumberTokens \cup {p[1] : p \in MoneySamples}

\* Texts with a currency symbol or none, a currency code or none, in both
\* orders, and a few more.
SymbolParts == {<<>>, <<Euro>>, <<Dollar>>, <<Pound>>}
CodeParts == {<<>>, Chars("EUR"), Chars("usd"), Chars("GBP")}

CurrencyTexts ==
  {s \o Chars(" 5 ") \o c : s \in SymbolParts, c \in CodeParts}
    \cup {c \o Chars(" 5 ") \o s : s \in SymbolParts, c \in CodeParts}
    \cup {<<>>, Chars("EURO 5"), Chars("xUSD"), Chars("5 gbp."), <<Dollar, Pound>>}

VARIABLES
  raw,      \* response.text(): the text the model returned
  clean,    \* tryParseJSON: const clean
  pc,       \* where the call is: "sanitize", a stage of Stages, "returned",
            \* "raised" (an exception left tryParseJSON), "responded"; "idle" when
            \* no request is being answered
  tried,    \* history: the parse attempts so far, in order, with their outcomes
  result,   \* what tryParseJSON returned: [kind |-> "Ok", value |-> v], or
            \* [kind |-> "Fail"] for undefined
  response  \* what POST answered

salvageVars == <<raw, clean, pc, tried, result, response>>

VARIABLES
  file,          \* extractFromPdf: the argument file
  parsed,        \* what pdfParse(buf) settles with
  meta,          \* the argument meta
  epc,           \* where the call is: "toBuffer", "pdfParse", "prepare", "scan",
                 \* "returned", "thrown"; "idle" when no document is being read
  fullText,      \* const fullText
  currency,      \* const currency
  mergedMeta,    \* const mergedMeta
  lines,         \* const lines
  lineNo,        \* the number of the line the for loop handles next
  rows,          \* const rows
  contextCodes,  \* let contextCodes
  contextDesc,   \* const contextDesc
  log,           \* history: the likely price tokens handled so far
  outcome        \* what the call settled with: the rows returned, or the error

extractVars ==
  <<file, parsed, meta, epc, fullText, currency, mergedMeta, lines, lineNo, rows,
    contextCodes, contextDesc, log, outcome>>

VARIABLES
  hfn,   \* the helper that is called: "parseMoney" or "currencyFromText"
  harg,  \* its argument
  hpc,   \* where the call is: "call", "done"; "idle" when no helper is called
         \* on its own
  hret   \* what it returned

helperVars == <<hfn, harg, hpc, hret>>

VARIABLES
  cin,        \* what each of the overlapping calls is called with
  cpc,        \* where each call is: "start", "await" (at its await of pdfParse
              \* or of the model), "returned", "thrown"; "idle" when no calls
              \* overlap
  cout,       \* what each call settled with
  lastIndex,  \* the lastIndex of MODEL_RX and of PRICE_RX
  frame,      \* the locals of the extraction that ran last
  steps       \* history: the steps taken, in order

overlapVars == <<cin, cpc, cout, lastIndex, frame, steps>>

VARIABLES
  sfn,    \* the scan that runs: "items" (extractLikelyItemsArray), "escape"
          \* (escapeNewlinesInQuotedStrings); "none" when no scan runs
  stext,  \* the text it scans
  spos,   \* i: the position of the next character (from 1)
  sst,    \* its locals: inStr, esc and depth, start or out
  spc     \* "scanning", "returned"; "idle" when no scan runs

scanVars == <<sfn, stext, spos, sst, spc>>

VARIABLES
  answers,   \* what the model does with the first, second and third call
  attempt,   \* attempt: the round of the loop of generateSchemaWithRetry
  lastErr,   \* lastErr
  calls,     \* history: the calls of model.generateContent made so far
  caught,    \* history: the errors caught so far, in order
  gpc,       \* "calling" (at the await of generateContent), "sleeping" (at the
             \* await of the timer), "returned", "thrown"; "idle" when it does
             \* not run
  gret       \* what it returned or threw

retryVars == <<answers, attempt, lastErr, calls, caught, gpc, gret>>

VARIABLES
  pageFile,  \* the state "file" of the page: the selected file, "none" for null
  pageMeta,  \* the state "meta" of the page (its supplier)
  pageRows,  \* the state "rows" of the page: the rows shown, each with the
             \* file it was extracted from
  loading,   \* the state "loading" of the page
  inflight,  \* the request a handler waits for, with the file and the meta its
             \* closure holds
  alerted    \* the text of the last alert

pageVars == <<pageFile, pageMeta, pageRows, loading, inflight, alerted>>

\* What each kind of call leaves alone.
outsideSalvage == <<extractVars, helperVars, overlapVars, scanVars, retryVars, pageVars>>
outsideExtract == <<salvageVars, helperVars, overlapVars, scanVars, retryVars, pageVars>>
outsideHelper == <<salvageVars, extractVars, overlapVars, scanVars, retryVars, pageVars>>
outsideOverlap == <<salvageVars, extractVars, helperVars, scanVars, retryVars, pageVars>>
outsideScan == <<salvageVars, extractVars, helperVars, overlapVars, retryVars, pageVars>>
outsideRetry == <<salvageVars, extractVars, helperVars, overlapVars, scanVars, pageVars>>
outsidePage == <<salvageVars, extractVars, helperVars, overlapVars, scanVars, retryVars>>

HelperIdle == hfn = "none" /\ harg = <<>> /\ hpc = "idle" /\ hret = 0

NoMeta == [supplier |-> <<>>, manufacturer |-> <<>>, validityDate |-> <<>>, fileName |-> ""]

\* The calls that overlap, and what they are called with: an extraction with
\* its file, the outcome of pdfParse and the meta, or a salvage with the text
\* of the model.
CallIds == {"a", "b"}

OverlapTexts ==
  { Chars("AB-100 Widget list ") \o <<Euro>> \o Chars("10.00 ") \o <<Euro>> \o Chars("10.00"),
    <<Euro>> \o Chars("10.00") \o <<CR, NL>> \o Chars("$0.00 5,00"),
    ListinoText,
    Chars("ACME TOOLS LTD.") \o <<NL>> \o LongLine }

OverlapRaws == {C5Raw, C5Strict, Chars("[1,]")}

OverlapMeta ==
  [supplier |-> Chars("S"), manufacturer |-> <<>>, validityDate |-> <<>>, fileName |-> "c.pdf"]

OverlapCalls ==
  {[kind |-> "extract", file |-> [kind |-> "Buffer", byteLength |-> 1], parsed |-> p,
    meta |-> OverlapMeta, raw |-> <<>>] : p \in PdfTexts(OverlapTexts) \cup {PdfError}}
    \cup {[kind |-> "extract", file |-> [kind |-> "ArrayBuffer", byteLength |-> 0],
           parsed |-> PdfError, meta |-> OverlapMeta, raw |-> <<>>]}
    \cup {[kind |-> "salvage", file |-> [kind |-> "Buffer", byteLength |-> 1],
           parsed |-> PdfError, meta |-> NoMeta, raw |-> r] : r \in OverlapRaws}

NoCall ==
  [kind |-> "none", file |-> [kind |-> "Buffer", byteLength |-> 1], parsed |-> PdfError,
   meta |-> NoMeta, raw |-> <<>>]

OverlapIdle ==
  /\ cin = [c \in CallIds |-> NoCall]
  /\ cpc = [c \in CallIds |-> "idle"]
  /\ cout = [c \in CallIds |-> [kind |-> "pending"]]
  /\ lastIndex = ZeroIndex
  /\ frame = EmptyLocals
  /\ steps = <<>>

ExtractStart ==
  /\ epc = "toBuffer"
  /\ fullText = <<>>
  /\ currency = "EUR"
  /\ mergedMeta = NoMeta
  /\ lines = <<>>
  /\ lineNo = 1
  /\ rows = <<>>
  /\ contextCodes = <<>>
  /\ contextDesc = <<>>
  /\ log = <<>>
  /\ outcome = [kind |-> "pending"]

\* The salvage does not run during an extraction, nor the extraction during a
\* salvage.
ScanIdle ==
  sfn = "none" /\ stext = <<>> /\ spos = 1 /\ sst = [inStr |-> FALSE, esc |-> FALSE] /\ spc = "idle"

\* lastErr before any catch: undefined.
NoError == [object |-> FALSE, status |-> -1, message |-> <<>>, text |-> <<>>]

RetryIdle ==
  /\ answers = <<>> /\ attempt = 1 /\ lastErr = NoError /\ calls = 0 /\ caught = <<>>
  /\ gpc = "idle" /\ gret = [kind |-> "pending"]

NoRequest == [kind |-> "none", file |-> "none", supplier |-> ""]

PageIdle ==
  /\ pageFile = "none" /\ pageMeta = "" /\ pageRows = <<>> /\ loading = FALSE
  /\ inflight = NoRequest /\ alerted = "idle"

SalvageIdle ==
  /\ raw = <<>> /\ clean = <<>> /\ pc = "idle" /\ tried = <<>>
  /\ result = [kind |-> "pending"] /\ response = [status |-> 0]

ExtractIdle ==
  /\ file = [kind |-> "Buffer", byteLength |-> 1] /\ parsed = PdfError /\ meta = NoMeta
  /\ epc = "idle" /\ fullText = <<>> /\ currency = "EUR" /\ mergedMeta = NoMeta
  /\ lines = <<>> /\ lineNo = 1 /\ rows = <<>> /\ contextCodes = <<>> /\ contextDesc = <<>>
  /\ log = <<>> /\ outcome = [kind |-> "pending"]

ExtractInit ==
  /\ \E c \in Calls : file = c.file /\ parsed = c.parsed
  /\ meta \in Metas
  /\ ExtractStart
  /\ SalvageIdle
  /\ HelperIdle
  /\ OverlapIdle
  /\ ScanIdle
  /\ RetryIdle
  /\ PageIdle

(***************************************************************************)
(* app/api/extract/route.ts: tryParseJSON and POST as a state machine      *)
(***************************************************************************)

SalvageInit ==
  /\ raw \in RawInputs
  /\ clean = <<>>
  /\ pc = "sanitize"
  /\ tried = <<>>
  /\ result = [kind |-> "pending"]
  /\ response = [status |-> 0]
  /\ ExtractIdle
  /\ HelperIdle
  /\ OverlapIdle
  /\ ScanIdle
  /\ RetryIdle
  /\ PageIdle

\* const clean = sanitizeJsonString(raw)
Sanitize ==
  /\ pc = "sanitize"
  /\ clean' = sanitizeJsonString(raw)
  /\ pc' = "direct"
  /\ UNCHANGED <<raw, tried, result, response>>
  /\ UNCHANGED outsideSalvage

\* One parse block of tryParseJSON: skipped when its guard fails; otherwise
\* JSON.parse of its text, returning on success and falling through to the
\* next block (or to "return undefined") when the SyntaxError is caught.
TryStage(st) ==
  /\ pc = st
  /\ LET fallThrough ==
           IF NextStage(st) = "return"
           THEN pc' = "returned" /\ result' = [kind |-> "Fail"]
           ELSE pc' = NextStage(st) /\ UNCHANGED result
         parse(p) ==
           /\ tried' = Append(tried, [stage |-> st, ok |-> p.ok, value |-> StageValue(st, p.val)])
           /\ IF p.ok THEN pc' = "returned" /\ result' = [kind |-> "Ok", value |-> StageValue(st, p.val)]
              ELSE IF Catches(st) THEN fallThrough
              ELSE pc' = "raised" /\ result' = [kind |-> "Error"]
         block(in) ==
           IF ~in.applies THEN fallThrough /\ UNCHANGED tried
           ELSE parse(JSONparse(in.text))
     IN  block(StageText(st, clean))
  /\ UNCHANGED <<raw, clean, response>>
  /\ UNCHANGED outsideSalvage

TryDirect == TryStage("direct")
TryObject == TryStage("object")
TryArray == TryStage("array")
TryItems == TryStage("items")

\* POST after tryParseJSON: 502 with the first 2000 characters of the raw text
\* when it returned undefined, the parsed value otherwise; an exception ends
\* in the catch of POST.
Respond ==
  /\ pc \in {"returned", "raised"}
  /\ response' =
       IF pc = "raised" THEN [status |-> 500, error |-> "Extraction failed."]
       ELSE IF result.kind = "Fail"
            THEN [status |-> 502, error |-> "Model returned non-JSON.", detail |-> Detail(raw)]
       ELSE [status |-> 200, body |-> result.value]
  /\ pc' = "responded"
  /\ UNCHANGED <<raw, clean, tried, result>>
  /\ UNCHANGED outsideSalvage

SalvageNext == Sanitize \/ TryDirect \/ TryObject \/ TryArray \/ TryItems \/ Respond

(***************************************************************************)
(* lib/priceExtractor.ts: the steps of extractFromPdf                      *)
(***************************************************************************)

\* const buf = toBuffer(file)
ToBuffer ==
  /\ epc = "toBuffer"
  /\ IF toBuffer(file).ok
     THEN epc' = "pdfParse" /\ UNCHANGED outcome
     ELSE epc' = "thrown" /\ outcome' = [kind |-> "Error", message |-> toBuffer(file).error]
  /\ UNCHANGED <<file, parsed, meta, fullText, currency, mergedMeta, lines, lineNo, rows,
                 contextCodes, contextDesc, log>>
  /\ UNCHANGED outsideExtract

\* const parsed = await pdfParse(buf); const fullText = parsed.text || ""
PdfParse ==
  /\ epc = "pdfParse"
  /\ IF parsed.ok
     THEN epc' = "prepare" /\ fullText' = parsed.text /\ UNCHANGED outcome
     ELSE epc' = "thrown" /\ outcome' = [kind |-> "Error", message |-> "pdfParse"]
          /\ UNCHANGED fullText
  /\ UNCHANGED <<file, parsed, meta, currency, mergedMeta, lines, lineNo, rows,
                 contextCodes, contextDesc, log>>
  /\ UNCHANGED outsideExtract

\* The currency, the merged meta and the lines of the document.
Prepare ==
  /\ epc = "prepare"
  /\ currency' = currencyFromText(fullText)
  /\ LET merge(guessed) ==
           [ supplier |-> OrElse(meta.supplier, OrElse(guessed.supplier, <<>>)),
             manufacturer |-> OrElse(meta.manufacturer, OrElse(guessed.manufacturer, <<>>)),
             validityDate |-> OrElse(meta.validityDate, OrElse(guessed.validityDate, <<>>)),
             fileName |-> meta.fileName ]
     IN  mergedMeta' = merge(guessMetaFromText(fullText))
  /\ lines' = SelectSeq(MapTrim(SplitLines(fullText)), LAMBDA l : l # <<>> /\ ~isBoilerplate(l))
  /\ epc' = "scan"
  /\ UNCHANGED <<file, parsed, meta, fullText, lineNo, rows, contextCodes, contextDesc, log,
                 outcome>>
  /\ UNCHANGED outsideExtract

\* One iteration of "for (const line of lines)": pushContext, then a row for
\* every likely price token of the line that does not parse to 0.
ScanLine ==
  /\ epc = "scan"
  /\ lineNo <= Len(lines)
  /\ LET line == lines[lineNo]
         rawPrices == SelectSeq(PRICE_RX(line).toks, isLikelyPrice)
         done(ctx, st) ==
           /\ contextCodes' = ctx.codes
           /\ contextDesc' = ctx.desc
           /\ rows' = st.rows
           /\ log' = st.log
         tokens(ctx) ==
           done(ctx, Scan(TokenStep, rawPrices,
                          [rows |-> rows, log |-> log, ctx |-> ctx, line |-> line,
                           lineNo |-> lineNo, meta |-> mergedMeta, currency |-> currency]))
     IN  tokens(pushContext([codes |-> contextCodes, desc |-> contextDesc], line))
  /\ lineNo' = lineNo + 1
  /\ UNCHANGED <<file, parsed, meta, epc, fullText, currency, mergedMeta, lines, outcome>>
  /\ UNCHANGED outsideExtract

\* After the loop: the rows whose key was not seen before are returned.
Dedup ==
  /\ epc = "scan"
  /\ lineNo > Len(lines)
  /\ outcome' = [kind |-> "Rows", rows |-> deduped(rows)]
  /\ epc' = "returned"
  /\ UNCHANGED <<file, parsed, meta, fullText, currency, mergedMeta, lines, lineNo, rows,
                 contextCodes, contextDesc, log>>
  /\ UNCHANGED outsideExtract

ExtractNext == ToBuffer \/ PdfParse \/ Prepare \/ ScanLine \/ Dedup

\* Bound of the long documents: at most MaxLongLines lines of LongPool, enough
\* for the description window to fill and to lose its oldest fragment, and
\* then possibly a line that is a price and nothing else.
MaxLongLines == 7

LongPool ==
  { Chars("A01 B02 C03 D04 E05 F06 G07 net ") \o <<Euro>> \o Chars("1.00"),
    Chars("retail box") }

PriceOnlyLine == <<Euro>> \o Chars("2.50")

RECURSIVE LongSeqs(_)
LongSeqs(n) ==
  IF n = 0 THEN {<<>>}
  ELSE LET shorter == LongSeqs(n - 1)
       IN  shorter \cup {Append(ls, l) : ls \in {t \in shorter : Len(t) = n - 1}, l \in LongPool}

LongTexts ==
  {JoinWith(ls \o last, <<NL>>) : ls \in LongSeqs(MaxLongLines), last \in {<<>>, <<PriceOnlyLine>>}}

\* One extraction of a long document per behaviour.
LongDocInit ==
  /\ file = [kind |-> "Buffer", byteLength |-> 1]
  /\ parsed \in PdfTexts(LongTexts)
  /\ meta = OverlapMeta
  /\ ExtractStart
  /\ SalvageIdle
  /\ HelperIdle
  /\ OverlapIdle
  /\ ScanIdle
  /\ RetryIdle
  /\ PageIdle

(***************************************************************************)
(* lib/priceExtractor.ts: one call of parseMoney or of currencyFromText    *)
(***************************************************************************)

HelperInit ==
  /\ \/ hfn = "parseMoney" /\ harg \in MoneyTokens
     \/ hfn = "currencyFromText" /\ harg \in CurrencyTexts
  /\ hpc = "call"
  /\ hret = 0
  /\ SalvageIdle
  /\ ExtractIdle
  /\ OverlapIdle
  /\ ScanIdle
  /\ RetryIdle
  /\ PageIdle

\* parseMoney(harg), in hundredths
ParseMoney ==
  /\ hpc = "call" /\ hfn = "parseMoney"
  /\ hret' = parseMoney(harg)
  /\ hpc' = "done"
  /\ UNCHANGED <<hfn, harg>>
  /\ UNCHANGED outsideHelper

\* currencyFromText(harg)
CurrencyFromText ==
  /\ hpc = "call" /\ hfn = "currencyFromText"
  /\ hret' = currencyFromText(harg)
  /\ hpc' = "done"
  /\ UNCHANGED <<hfn, harg>>
  /\ UNCHANGED outsideHelper

HelperNext == ParseMoney \/ CurrencyFromText

(***************************************************************************)
(* Two calls that overlap: a call runs from its start to its await, and    *)
(* from the settling of what it awaits to its return, without a break      *)
(***************************************************************************)

OverlapInit ==
  /\ cin \in [CallIds -> OverlapCalls]
  /\ cpc = [c \in CallIds |-> "start"]
  /\ cout = [c \in CallIds |-> [kind |-> "pending"]]
  /\ lastIndex = ZeroIndex
  /\ frame = EmptyLocals
  /\ steps = <<>>
  /\ SalvageIdle
  /\ ExtractIdle
  /\ HelperIdle
  /\ ScanIdle
  /\ RetryIdle
  /\ PageIdle

\* extractFromPdf up to "await pdfParse(buf)"
ExtractBegin(c) ==
  /\ cpc[c] = "start" /\ cin[c].kind = "extract"
  /\ IF toBuffer(cin[c].file).ok
     THEN cpc' = [cpc EXCEPT ![c] = "await"] /\ UNCHANGED cout
     ELSE /\ cpc' = [cpc EXCEPT ![c] = "thrown"]
          /\ cout' = [cout EXCEPT ![c] = [kind |-> "Error", message |-> toBuffer(cin[c].file).error]]
  /\ steps' = Append(steps, <<c, "begin">>)
  /\ UNCHANGED <<cin, lastIndex, frame>>
  /\ UNCHANGED outsideOverlap

\* extractFromPdf from the settling of pdfParse to the return
ExtractSettle(c) ==
  /\ cpc[c] = "await" /\ cin[c].kind = "extract"
  /\ IF cin[c].parsed.ok
     THEN LET return(run) ==
                /\ cout' = [cout EXCEPT ![c] = [kind |-> "Rows", rows |-> run.rows]]
                /\ frame' = run.locals
                /\ lastIndex' = run.li
          IN  /\ return(extractRun(cin[c].parsed.text, cin[c].meta, NewLocals(frame), lastIndex))
              /\ cpc' = [cpc EXCEPT ![c] = "returned"]
     ELSE /\ cpc' = [cpc EXCEPT ![c] = "thrown"]
          /\ cout' = [cout EXCEPT ![c] = [kind |-> "Error", message |-> "pdfParse"]]
          /\ UNCHANGED <<frame, lastIndex>>
  /\ steps' = Append(steps, <<c, "settle">>)
  /\ UNCHANGED cin
  /\ UNCHANGED outsideOverlap

\* POST of the extract route up to the await of the model's answer
SalvageBegin(c) ==
  /\ cpc[c] = "start" /\ cin[c].kind = "salvage"
  /\ cpc' = [cpc EXCEPT ![c] = "await"]
  /\ steps' = Append(steps, <<c, "begin">>)
  /\ UNCHANGED <<cin, cout, lastIndex, frame>>
  /\ UNCHANGED outsideOverlap

\* POST from the answer of the model on: tryParseJSON(raw)
SalvageSettle(c) ==
  /\ cpc[c] = "await" /\ cin[c].kind = "salvage"
  /\ cout' = [cout EXCEPT ![c] = tryParseJSON(cin[c].raw)]
  /\ cpc' = [cpc EXCEPT ![c] = "returned"]
  /\ steps' = Append(steps, <<c, "settle">>)
  /\ UNCHANGED <<cin, lastIndex, frame>>
  /\ UNCHANGED outsideOverlap

OverlapNext ==
  \E c \in CallIds : ExtractBegin(c) \/ ExtractSettle(c) \/ SalvageBegin(c) \/ SalvageSettle(c)

(***************************************************************************)
(* app/api/extract/route.ts: the two character scans, one character per    *)
(* step                                                                    *)
(***************************************************************************)

\* The texts of the escape scan: what the steps of sanitizeJsonString before
\* it can hand to it.
EscapeChars == {Quote, Backslash, NL, CR, TAB, "a"}

EscapeTexts == StringsUpTo(EscapeChars, MaxRawLen)

EscScanStart == [out |-> <<>>, inStr |-> FALSE, esc |-> FALSE]

ScanInit ==
  /\ \/ sfn = "items" /\ stext \in ItemsTexts /\ sst = ItemsScanStart
     \/ sfn = "escape" /\ stext \in EscapeTexts /\ sst = EscScanStart
  /\ spos = 1
  /\ spc = "scanning"
  /\ SalvageIdle
  /\ ExtractIdle
  /\ HelperIdle
  /\ OverlapIdle
  /\ RetryIdle
  /\ PageIdle

\* extractLikelyItemsArray: one round of the loop; "return slice" ends it
ItemsScanStep ==
  /\ sfn = "items" /\ spc = "scanning" /\ spos <= Len(stext)
  /\ sst' = ItemsStep(sst, stext, spos)
  /\ spos' = spos + 1
  /\ spc' = IF ItemsStep(sst, stext, spos).found THEN "returned" ELSE "scanning"
  /\ UNCHANGED <<sfn, stext>>
  /\ UNCHANGED outsideScan

\* extractLikelyItemsArray: the loop is over, "return null"
ItemsScanEnd ==
  /\ sfn = "items" /\ spc = "scanning" /\ spos > Len(stext)
  /\ spc' = "returned"
  /\ UNCHANGED <<sfn, stext, spos, sst>>
  /\ UNCHANGED outsideScan

\* escapeNewlinesInQuotedStrings: one round of the loop
EscScanStep ==
  /\ sfn = "escape" /\ spc = "scanning" /\ spos <= Len(stext)
  /\ sst' = EscStep(sst, stext, spos)
  /\ spos' = spos + 1
  /\ UNCHANGED <<sfn, stext, spc>>
  /\ UNCHANGED outsideScan

\* escapeNewlinesInQuotedStrings: the loop is over, "return out"
EscScanEnd ==
  /\ sfn = "escape" /\ spc = "scanning" /\ spos > Len(stext)
  /\ spc' = "returned"
  /\ UNCHANGED <<sfn, stext, spos, sst>>
  /\ UNCHANGED outsideScan

ScanNext == ItemsScanStep \/ ItemsScanEnd \/ EscScanStep \/ EscScanEnd

(***************************************************************************)
(* app/api/schema/route.ts: generateSchemaWithRetry                        *)
(***************************************************************************)

\* const maxAttempts = 3
maxAttempts == 3

\* What a rejection of generateContent can be: an object with or without a
\* numeric status and a string message (status -1 and message <<>> stand for
\* their absence), or a string that was thrown, with its text.
ModelErrors ==
  { [object |-> TRUE, status |-> 429, message |-> Chars("Too Many Requests"), text |-> <<>>],
    [object |-> TRUE, status |-> 500, message |-> Chars("Rate Limit hit"), text |-> <<>>],
    [object |-> TRUE, status |-> -1, message |-> Chars("daily QUOTA used"), text |-> <<>>],
    [object |-> TRUE, status |-> 500, message |-> Chars("ratelimit"), text |-> <<>>],
    [object |-> TRUE, status |-> 400, message |-> <<>>, text |-> <<>>],
    [object |-> FALSE, status |-> -1, message |-> <<>>, text |-> Chars("boom")] }

ModelAnswers ==
  {[ok |-> TRUE, res |-> "res", err |-> NoError]}
    \cup {[ok |-> FALSE, res |-> "none", err |-> e] : e \in ModelErrors}

\* extractErrorInfo: the status and the message of an object, nothing of
\* any other value.
extractErrorInfo(err) ==
  IF err.object THEN [status |-> err.status, message |-> err.message]
  ELSE [status |-> -1, message |-> <<>>]

\* /rate limit|quota/i.test(message)
MentionsLimit(message) ==
  \E i \in 1..Len(message) :
    MatchAtCI(message, i, Chars("rate limit")) \/ MatchAtCI(message, i, Chars("quota"))

\* isRateLimit with the test forgotten: every error is taken for a rate limit.
isRateLimitAlways(err) == TRUE

isRateLimit(err) ==
  \/ extractErrorInfo(err).status = 429
  \/ extractErrorInfo(err).message # <<>> /\ MentionsLimit(extractErrorInfo(err).message)

\* 300 * Math.pow(2, attempt - 1)
Backoff(n) == 300 * 2 ^ (n - 1)

RetryInit ==
  /\ answers \in [1..maxAttempts -> ModelAnswers]
  /\ attempt = 1
  /\ lastErr = NoError
  /\ calls = 1
  /\ caught = <<>>
  /\ gpc = "calling"
  /\ gret = [kind |-> "pending"]
  /\ SalvageIdle
  /\ ExtractIdle
  /\ HelperIdle
  /\ OverlapIdle
  /\ ScanIdle
  /\ PageIdle

\* The call of round attempt settles: return res, or the catch block, which
\* goes to sleep before the next round or leaves the loop and throws lastErr.
GenerateSettles ==
  /\ gpc = "calling"
  /\ IF answers[attempt].ok
     THEN /\ gpc' = "returned"
          /\ gret' = [kind |-> "res", value |-> answers[attempt].res]
          /\ UNCHANGED <<lastErr, caught>>
     ELSE /\ lastErr' = answers[attempt].err
          /\ caught' = Append(caught, answers[attempt].err)
          /\ IF attempt < maxAttempts /\ isRateLimit(answers[attempt].err)
             THEN gpc' = "sleeping" /\ gret' = [kind |-> "timer", ms |-> Backoff(attempt)]
             ELSE gpc' = "thrown" /\ gret' = [kind |-> "error", value |-> answers[attempt].err]
  /\ UNCHANGED <<answers, attempt, calls>>
  /\ UNCHANGED outsideRetry

\* The timer fires: continue, attempt++, the next call of generateContent.
TimerFires ==
  /\ gpc = "sleeping"
  /\ attempt' = attempt + 1
  /\ calls' = calls + 1
  /\ gpc' = "calling"
  /\ gret' = [kind |-> "pending"]
  /\ UNCHANGED <<answers, lastErr, caught>>
  /\ UNCHANGED outsideRetry

RetryNext == GenerateSettles \/ TimerFires

(***************************************************************************)
(* app/page.tsx: the page, its handlers and the responses they wait for    *)
(***************************************************************************)

PageFiles == {"a.pdf", "b.pdf", "c.pdf"}

PageSuppliers == {"", "S"}

\* What the server can answer to an extraction of the file f: the rows of f
\* (none, one or two), a failure, and for the AI route a failure whose detail
\* holds rows of f.
ItemsOf(f, n) == [k \in 1..n |-> [from |-> f, no |-> k, Supplier |-> ""]]

PageResponses(f) ==
  {[ok |-> TRUE, items |-> ItemsOf(f, n), detail |-> <<>>] : n \in 0..2}
    \cup {[ok |-> FALSE, items |-> <<>>, detail |-> ItemsOf(f, n)] : n \in 0..1}

\* normalizeRows: the fields the model left empty are taken from the meta of
\* the closure.
normalizeRows(items, supplier) ==
  [k \in 1..Len(items) |->
     [items[k] EXCEPT !.Supplier = IF items[k].Supplier # "" THEN items[k].Supplier ELSE supplier]]

\* The page after its first render.
PageInit ==
  /\ pageFile = "none"
  /\ pageMeta = ""
  /\ pageRows = <<>>
  /\ loading = FALSE
  /\ inflight = NoRequest
  /\ alerted = "none"
  /\ SalvageIdle
  /\ ExtractIdle
  /\ HelperIdle
  /\ OverlapIdle
  /\ ScanIdle
  /\ RetryIdle

\* handleFileSelect: FileUpload calls it whenever the user picks a file; the
\* page passes it nothing else, so it is not held back while loading.
handleFileSelect(f) ==
  /\ pageFile' = f
  /\ pageRows' = <<>>
  /\ UNCHANGED <<pageMeta, loading, inflight, alerted>>
  /\ UNCHANGED outsidePage

\* MetaForm onChange={setMeta}
setMeta(s) ==
  /\ pageMeta' = s
  /\ pageMeta # s
  /\ UNCHANGED <<pageFile, pageRows, loading, inflight, alerted>>
  /\ UNCHANGED outsidePage

\* handleExtractFast up to "await fetch": the button is disabled without a
\* file and while loading.
handleExtractFast ==
  /\ pageFile # "none" /\ ~loading
  /\ loading' = TRUE
  /\ inflight' = [kind |-> "fast", file |-> pageFile, supplier |-> pageMeta]
  /\ UNCHANGED <<pageFile, pageMeta, pageRows, alerted>>
  /\ UNCHANGED outsidePage

\* handleExtractFast from the response on.
FastResponds(res) ==
  /\ inflight.kind = "fast"
  /\ IF ~res.ok THEN alerted' = "Failed to parse PDF." /\ UNCHANGED pageRows
     ELSE pageRows' = res.items /\ UNCHANGED alerted
  /\ loading' = FALSE
  /\ inflight' = NoRequest
  /\ UNCHANGED <<pageFile, pageMeta>>
  /\ UNCHANGED outsidePage

\* handleExtractAI up to "await fetch".
handleExtractAI ==
  /\ pageFile # "none" /\ ~loading
  /\ loading' = TRUE
  /\ inflight' = [kind |-> "ai", file |-> pageFile, supplier |-> pageMeta]
  /\ UNCHANGED <<pageFile, pageMeta, pageRows, alerted>>
  /\ UNCHANGED outsidePage

\* handleExtractAI from the response on: the rows of the detail of a failure
\* when it has any, else an alert; the rows of a success.
AIResponds(res) ==
  /\ inflight.kind = "ai"
  /\ IF ~res.ok
     THEN IF Len(res.detail) > 0
          THEN pageRows' = normalizeRows(res.detail, inflight.supplier) /\ UNCHANGED alerted
          ELSE alerted' = "AI extraction failed." /\ UNCHANGED pageRows
     ELSE pageRows' = normalizeRows(res.items, inflight.supplier) /\ UNCHANGED alerted
  /\ loading' = FALSE
  /\ inflight' = NoRequest
  /\ UNCHANGED <<pageFile, pageMeta>>
  /\ UNCHANGED outsidePage

SelectsFile == \E f \in PageFiles : handleFileSelect(f)

ChangesMeta == \E s \in PageSuppliers : setMeta(s)

FastResponse == \E res \in PageResponses(inflight.file) : FastResponds(res)

AIResponse == \E res \in PageResponses(inflight.file) : AIResponds(res)

PageNext ==
  SelectsFile \/ ChangesMeta \/ handleExtractFast \/ FastResponse \/ handleExtractAI \/ AIResponse

vars == <<salvageVars, extractVars, helperVars, overlapVars, scanVars, retryVars, pageVars>>

\* One salvage call per behaviour.
SalvageSpec == SalvageInit /\ [][SalvageNext]_vars

\* One extraction call per behaviour.
ExtractSpec == ExtractInit /\ [][ExtractNext]_vars

\* One call of a helper per behaviour.
HelperSpec == HelperInit /\ [][HelperNext]_vars

\* Two overlapping calls per behaviour.
OverlapSpec == OverlapInit /\ [][OverlapNext]_vars

ScanSpec == ScanInit /\ [][ScanNext]_vars

\* One extraction of a long document per behaviour.
LongDocSpec == LongDocInit /\ [][ExtractNext]_vars

\* One call of generateSchemaWithRetry per behaviour.
RetrySpec == RetryInit /\ [][RetryNext]_vars

\* The same, where the promise of generateContent settles and the timer fires.
RetryFairSpec == RetrySpec /\ WF_vars(RetryNext)

PageSpec == PageInit /\ [][PageNext]_vars

Init == SalvageInit \/ ExtractInit \/ HelperInit \/ OverlapInit \/ ScanInit \/ LongDocInit \/ RetryInit \/ PageInit

Next == SalvageNext \/ ExtractNext \/ HelperNext \/ OverlapNext \/ ScanNext \/ RetryNext \/ PageNext

Spec == Init /\ [][Next]_vars

(***************************************************************************)
(* Properties of the salvage                                               *)
(***************************************************************************)

StageRank(st) == CHOOSE k \in 1..4 : Stages[k] = st

TriedStages == [i \in 1..Len(tried) |-> tried[i].stage]

Returned == pc \in {"returned", "responded"}

\* C1: the stages are attempted in the order direct, object-slice,
\* array-slice, items extraction, starting with the direct parse; a stage is
\* attempted only after every earlier attempt failed, no stage that comes
\* before the returning one could have produced a value, and the value
\* returned is the one the first successful stage produced.
C1_StagesInOrderFirstSuccessWins ==
  /\ \A i, j \in 1..Len(tried) : i < j => StageRank(tried[i].stage) < StageRank(tried[j].stage)
  /\ tried # <<>> => tried[1].stage = "direct"
  /\ \A i \in 1..(Len(tried) - 1) : ~tried[i].ok
  /\ Returned /\ result.kind = "Ok" =>
       /\ tried[Len(tried)].ok
       /\ result.value = tried[Len(tried)].value
       /\ \A k \in 1..(StageRank(tried[Len(tried)].stage) - 1) :
            ~(StageText(Stages[k], clean).applies /\ JSONparse(StageText(Stages[k], clean).text).ok)
  /\ Returned /\ result.kind = "Fail" => \A i \in 1..Len(tried) : ~tried[i].ok

\* C1 witness: the fourth stage returned a value after the first three failed.
C1_Witness ==
  /\ pc = "returned" /\ result.kind = "Ok"
  /\ TriedStages = Stages
  /\ ~tried[1].ok /\ ~tried[2].ok /\ ~tried[3].ok /\ tried[4].ok

\* C2: no parse error leaves tryParseJSON: the call is never in the state
\* "raised", it makes at most one attempt per stage, and what it returns is
\* a value (Ok) or undefined (Fail).
C2_NeverRaisesOkOrFail ==
  /\ pc # "raised"
  /\ Len(tried) <= Len(Stages)
  /\ Returned => result.kind \in {"Ok", "Fail"}
  /\ Returned /\ result.kind = "Ok" => "value" \in DOMAIN result

\* C2 witness: all four parses were attempted, each threw, and the call
\* returned Fail.
C2_Witness ==
  /\ pc = "returned" /\ result.kind = "Fail"
  /\ TriedStages = Stages

\* C3 (as claimed): when all stages fail, the failure result carries the
\* sanitized text, the names of the stages attempted and the name of the last
\* stage, and the response of POST carries them as its debug part.
C3_FailCarriesDiagnostics ==
  pc = "responded" /\ result.kind = "Fail" =>
    /\ "cleanedText" \in DOMAIN result /\ result.cleanedText = clean
    /\ "stagesTried" \in DOMAIN result /\ result.stagesTried = TriedStages
    /\ "finalStage" \in DOMAIN result /\ result.finalStage = TriedStages[Len(tried)]
    /\ "debug" \in DOMAIN response

\* C4 (as claimed): sanitizing the sanitized text leaves it unchanged.
C4_SanitizeIdempotent ==
  pc # "sanitize" => sanitizeJsonString(clean) = clean

\* C4 (amended): the last step of the sanitizer, the scan that escapes line
\* breaks inside quoted strings, is idempotent: it leaves its own output
\* unchanged, on the raw text and on the sanitized text.
C4_FinalScanIdempotent ==
  /\ escapeNewlinesInQuotedStrings(escapeNewlinesInQuotedStrings(raw))
       = escapeNewlinesInQuotedStrings(raw)
  /\ pc # "sanitize" => escapeNewlinesInQuotedStrings(clean) = clean

\* C4 witness: the scan has rewritten a line break inside a quoted string.
C4_Witness ==
  /\ pc = "direct"
  /\ \E i \in 1..Len(raw) : raw[i] = NL
  /\ escapeNewlinesInQuotedStrings(raw) # raw
  /\ \A i \in 1..Len(clean) : clean[i] # NL

\* C5 (as claimed): the text with unquoted keys, single-quoted values and a
\* trailing comma is salvaged to the value of the corresponding strict JSON.
C5_RepairsKeysAndQuotes ==
  raw = C5Raw /\ Returned =>
    result.kind = "Ok" /\ result.value = JSONparse(C5Strict).val

\* Is b valid JSON but for exactly one comma before a closing bracket?
OneTrailingComma(b) ==
  /\ ~JSONparse(b).ok
  /\ Cardinality({i \in 1..Len(b) : TrailingCommaCloser(b, i) # 0}) = 1
  /\ \E i \in 1..Len(b) :
       TrailingCommaCloser(b, i) # 0 /\ JSONparse(SubSeq(b, 1, i - 1) \o DropFirst(b, i)).ok

JsonFenceOpen == Fence \o Chars("json")

\* Is text a fence marked json, a body that is valid JSON but for one trailing
\* comma, and a closing fence?
IsFencedTrailingComma(text) ==
  /\ StartsWith(text, JsonFenceOpen)
  /\ Len(text) >= 10 /\ MatchAt(text, Len(text) - 2, Fence)
  /\ OneTrailingComma(Trim(SubSeq(text, 8, Len(text) - 3)))

\* C6 (as claimed): a fenced text that is valid JSON but for one trailing
\* comma is parsed by the direct stage, and no later stage is attempted.
C6_FencedTrailingCommaDirect ==
  IsFencedTrailingComma(raw) /\ Returned =>
    result.kind = "Ok" /\ TriedStages = <<"direct">>

(***************************************************************************)
(* Properties of the extraction                                            *)
(***************************************************************************)

ExtractReturned == epc = "returned" /\ outcome.kind = "Rows"

\* Does the token at a come before the token at b in the text: an earlier
\* line, or the same line and an earlier token?
AtBefore(a, b) == a[1] < b[1] \/ (a[1] = b[1] /\ a[2] < b[2])

InOutput(r) == \E k \in 1..Len(outcome.rows) : outcome.rows[k] = r

\* The place among the synthesized rows of a row that is one of them.
RowIndex(r) == CHOOSE i \in 1..Len(rows) : rows[i] = r

\* The price of a row: the list price of its tier.
PriceOf(r) == IF r.T1orT2 = "T1" THEN r.T1List ELSE r.T2List

\* C7: the rows are synthesized in the order of their price tokens in the
\* text (line order, then token order), and the rows returned are some of
\* the synthesized rows in that same order.
C7_OutputInScanOrder ==
  /\ \A i, j \in 1..Len(log) : i < j => AtBefore(log[i].at, log[j].at)
  /\ \A i, j \in 1..Len(rows) : i < j => AtBefore(rows[i].at, rows[j].at)
  /\ ExtractReturned =>
       /\ \A k \in 1..Len(outcome.rows) : \E i \in 1..Len(rows) : rows[i] = outcome.rows[k]
       /\ \A k, l \in 1..Len(outcome.rows) :
            k < l => /\ RowIndex(outcome.rows[k]) < RowIndex(outcome.rows[l])
                     /\ AtBefore(outcome.rows[k].at, outcome.rows[l].at)

\* C7 witness: a returned call where a row between two returned rows of
\* different lines was dropped.
C7_Witness ==
  /\ ExtractReturned
  /\ \E i, j, k \in 1..Len(rows) :
       /\ i < j /\ j < k
       /\ InOutput(rows[i]) /\ ~InOutput(rows[j]) /\ InOutput(rows[k])
       /\ rows[i].at[1] < rows[k].at[1]

\* The composite key of a row as the claim names it.
CompositeKey(r) ==
  << Trim(r.ModelCode),
     FirstN(Trim(NormalizeSpaces(r.ModelDescription)), KeyPrefix),
     r.T1orT2,
     IF r.T1List # 0 THEN r.T1List ELSE r.T2List,
     r.ISOCurrency >>

\* C8: no two returned rows have the same composite key, and a synthesized
\* row is returned exactly when no earlier synthesized row has its key: the
\* first row of a key is kept, and only rows with an earlier twin are dropped.
C8_FirstRowPerKey ==
  ExtractReturned =>
    /\ \A k, l \in 1..Len(outcome.rows) :
         k # l => CompositeKey(outcome.rows[k]) # CompositeKey(outcome.rows[l])
    /\ \A i \in 1..Len(rows) :
         InOutput(rows[i]) <=> ~\E j \in 1..(i - 1) : CompositeKey(rows[j]) = CompositeKey(rows[i])

\* C8 witness: a row was dropped whose description differs from that of the
\* row kept for its key, the two agreeing on the first KeyPrefix characters.
C8_Witness ==
  /\ ExtractReturned
  /\ \E i, j \in 1..Len(rows) :
       /\ i < j /\ InOutput(rows[i]) /\ ~InOutput(rows[j])
       /\ CompositeKey(rows[i]) = CompositeKey(rows[j])
       /\ rows[i].ModelDescription # rows[j].ModelDescription

\* The history entry of the token at a.
LogAt(a) == log[CHOOSE i \in 1..Len(log) : log[i].at = a]

\* C9: every synthesized row, and so every returned row, has a non-empty
\* ModelCode and a non-empty ModelDescription; a row made while no identifier
\* was in context has the code ITEM_<n>, n its 1-based place among the rows,
\* and a row made while no description was in context has the fallback
\* description.
C9_CodeAndDescriptionNonEmpty ==
  /\ \A i \in 1..Len(rows) :
       /\ Trim(rows[i].ModelCode) # <<>>
       /\ Trim(rows[i].ModelDescription) # <<>>
       /\ ~LogAt(rows[i].at).hasCode => rows[i].ModelCode = Chars("ITEM_") \o NatDigits(i)
       /\ ~LogAt(rows[i].at).hasDesc => rows[i].ModelDescription = Chars("Price Item")
  /\ ExtractReturned =>
       \A k \in 1..Len(outcome.rows) :
         outcome.rows[k].ModelCode # <<>> /\ outcome.rows[k].ModelDescription # <<>>

\* C9 witness: a returned row with the second synthetic code and the
\* fallback description.
C9_Witness ==
  /\ ExtractReturned
  /\ \E k \in 1..Len(outcome.rows) :
       /\ outcome.rows[k].ModelCode = Chars("ITEM_2")
       /\ outcome.rows[k].ModelDescription = Chars("Price Item")
       /\ ~LogAt(outcome.rows[k].at).hasCode

\* C10: the synthesized rows are, in order, the tokens handled whose value is
\* not 0, each with that value as its price: a token of value 0 makes no row
\* and leaves the row count as it was; no returned row has the price 0.
C10_ZeroTokensMakeNoRow ==
  /\ LET priced == SelectSeq(log, LAMBDA e : e.price # 0)
     IN  /\ Len(rows) = Len(priced)
         /\ \A i \in 1..Len(rows) :
              rows[i].at = priced[i].at /\ PriceOf(rows[i]) = priced[i].price
  /\ \A i \in 1..Len(rows) : PriceOf(rows[i]) # 0
  /\ ExtractReturned => \A k \in 1..Len(outcome.rows) : PriceOf(outcome.rows[k]) # 0

\* C10 witness: a token of value 0 was skipped, and the row of the token after
\* it got the first synthetic code.
C10_Witness ==
  /\ ExtractReturned
  /\ \E i \in 1..Len(log), k \in 1..Len(outcome.rows) :
       /\ log[i].price = 0
       /\ AtBefore(log[i].at, outcome.rows[k].at)
       /\ outcome.rows[k].ModelCode = Chars("ITEM_1")

\* C11: every row returned carries the parsed value of its price token in
\* the List and the Cost field of the tier that T1orT2 names, and 0 in the
\* List and the Cost field of the other tier.
C11_PriceInOwnTierOnly ==
  ExtractReturned =>
    \A k \in 1..Len(outcome.rows) :
      LET r == outcome.rows[k]
          price == LogAt(r.at).price
      IN  /\ r.T1orT2 \in {"T1", "T2"}
          /\ r.T1orT2 = "T1" =>
               r.T1List = price /\ r.T1Cost = price /\ r.T2List = 0 /\ r.T2Cost = 0
          /\ r.T1orT2 = "T2" =>
               r.T2List = price /\ r.T2Cost = price /\ r.T1List = 0 /\ r.T1Cost = 0

\* C11 witness: a returned call with a row of each tier, both of a price
\* that is not 0.
C11_Witness ==
  /\ ExtractReturned
  /\ \E k, l \in 1..Len(outcome.rows) :
       /\ outcome.rows[k].T1orT2 = "T1" /\ outcome.rows[k].T1Cost > 0
       /\ outcome.rows[l].T1orT2 = "T2" /\ outcome.rows[l].T2Cost > 0

\* C12: in every row returned, Supplier, Manufacturer and ValidityDate are
\* the caller's value when the caller gave one, and the value guessed from
\* the text (or nothing, when there is no guess) only when the caller left
\* the field empty; FileName is the caller's.
C12_CallerMetaWins ==
  ExtractReturned =>
    LET guessed == guessMetaFromText(fullText)
    IN  \A k \in 1..Len(outcome.rows) :
          LET r == outcome.rows[k]
          IN  /\ r.Supplier = IF meta.supplier # <<>> THEN meta.supplier ELSE guessed.supplier
              /\ r.Manufacturer =
                   IF meta.manufacturer # <<>> THEN meta.manufacturer ELSE guessed.manufacturer
              /\ r.ValidityDate =
                   IF meta.validityDate # <<>> THEN meta.validityDate ELSE guessed.validityDate
              /\ r.FileName = meta.fileName

\* C12 witness: a returned row whose supplier is the caller's although the
\* text offers a guess, and whose manufacturer and date, left empty by the
\* caller, are the guesses.
C12_Witness ==
  /\ ExtractReturned
  /\ outcome.rows # <<>>
  /\ meta.supplier # <<>> /\ meta.manufacturer = <<>> /\ meta.validityDate = <<>>
  /\ LET guessed == guessMetaFromText(fullText)
     IN  /\ guessed.supplier # <<>> /\ guessed.supplier # meta.supplier
         /\ guessed.validityDate # <<>>
         /\ outcome.rows[1].Supplier = meta.supplier
         /\ outcome.rows[1].Manufacturer = guessed.manufacturer
         /\ outcome.rows[1].ValidityDate = guessed.validityDate

\* C13: a call whose file has no bytes, whatever its type, ends with the
\* input error of toBuffer and never goes on to pdfParse or returns rows.
C13_ZeroLengthIsInputError ==
  (file.byteLength = 0 /\ epc \notin {"idle", "toBuffer"}) =>
    /\ epc = "thrown"
    /\ outcome = [kind |-> "Error", message |-> "Uploaded PDF is empty (0 bytes)."]

\* A text with no currency symbol, no currency code and no dot or comma:
\* none of its tokens can carry a currency or a decimal part.
NoPriceMark(t) ==
  /\ ~HasChar(t, CurrencySymbols \cup {".", ","})
  /\ \A w \in CurrencyCodes : \A i \in 1..Len(t) : ~MatchAtCI(t, i, w)

\* The text has only empty lines and boilerplate lines.
OnlyBoilerplate(t) ==
  LET ls == MapTrim(SplitLines(t))
  IN  \A i \in 1..Len(ls) : ls[i] = <<>> \/ isBoilerplate(ls[i])

\* C14: a call whose text was read does not throw, and it returns no row
\* when the text has no price mark at all, when all its lines are
\* boilerplate, or when the scan met no likely price token.
C14_NoPriceTokenEmptyResult ==
  /\ epc = "thrown" => ~toBuffer(file).ok \/ ~parsed.ok
  /\ (ExtractReturned /\ (NoPriceMark(fullText) \/ OnlyBoilerplate(fullText) \/ log = <<>>)) =>
       rows = <<>> /\ outcome.rows = <<>>

\* C14 witness: a returned call on a text with digits and letters but no
\* price mark, with no row.
C14_Witness ==
  /\ ExtractReturned
  /\ HasChar(fullText, DigitChars) /\ HasChar(fullText, LetterChars)
  /\ NoPriceMark(fullText) /\ ~OnlyBoilerplate(fullText)
  /\ outcome.rows = <<>>

(***************************************************************************)
(* Properties of parseMoney and currencyFromText                           *)
(***************************************************************************)

MoneyReturned == hpc = "done" /\ hfn = "parseMoney"

\* C15: for every amount, parseMoney of the form "X.XXX,XX" and parseMoney
\* of the form "X,XXX.XX" are the same value, the amount: the separator that
\* comes last is the decimal point and all the others are removed.
C15_BothFormsSameValue ==
  MoneyReturned =>
    \A a \in Amounts :
      /\ harg \in {DotForm(a), CommaForm(a)} => hret = CentsOf(a)
      /\ parseMoney(DotForm(a)) = parseMoney(CommaForm(a))

\* C15 witness: a call on the dot form of an amount with two thousands
\* groups and cents that are not 0 has returned the amount.
C15_Witness ==
  /\ MoneyReturned
  /\ \E a \in Amounts :
       /\ Len(a.groups) = 2 /\ a.cents # Chars("00")
       /\ harg = DotForm(a) /\ harg # CommaForm(a)
       /\ hret = CentsOf(a)

\* The characters of a token that parseMoney keeps.
MoneyChars(s) == SelectSeq(s, LAMBDA c : c \in DigitChars \cup {".", ",", "-"})

\* How often a character of cs occurs in s.
CountOf(s, cs) == Cardinality({i \in 1..Len(s) : s[i] \in cs})

\* Texts of digits, dots, commas and minus signs that are not the notation
\* of one number, whichever separator is taken for the decimal point: a
\* minus sign after the first two characters, or one kind of separator
\* only and more than one of it.
NoNumber(x) ==
  \/ \E i \in 3..Len(x) : x[i] = "-"
  \/ CountOf(x, {","}) = 0 /\ CountOf(x, {"."}) > 1
  \/ CountOf(x, {"."}) = 0 /\ CountOf(x, {","}) > 1

\* C16: every call of parseMoney returns a number; it returns 0 for the
\* empty text, for a token with no digit, for "0,00", and for a token whose
\* digits and separators do not make one number.
C16_ParseMoneyTotal ==
  /\ hfn = "parseMoney" /\ hpc = "call" => parseMoney(harg) \in Int
  /\ MoneyReturned =>
       /\ hret \in Int
       /\ harg = <<>> => hret = 0
       /\ ~HasChar(harg, DigitChars) => hret = 0
       /\ harg = Chars("0,00") => hret = 0
       /\ NoNumber(MoneyChars(harg)) => hret = 0
       /\ harg \in NoNumberTokens => hret = 0

\* C16 witness: a call on a token with digits that make no number has
\* returned 0.
C16_Witness ==
  /\ MoneyReturned
  /\ HasChar(harg, DigitChars)
  /\ NoNumber(MoneyChars(harg))
  /\ hret = 0

CurrencyReturned == hpc = "done" /\ hfn = "currencyFromText"

\* The currency that a symbol stands for.
SymbolCurrency(c) == IF c = Euro THEN "EUR" ELSE IF c = Dollar THEN "USD" ELSE "GBP"

\* Do the letters of a code (EUR, USD or GBP, in any case) occur in the text?
HasCode(t) == \E w \in CurrencyCodes : \E i \in 1..Len(t) : MatchAtCI(t, i, w)

\* C18: currencyFromText returns the currency of a currency symbol of the
\* text, whatever currency codes the text has besides, and EUR for a text
\* with neither a symbol nor a code.
C18_SymbolBeforeCode ==
  CurrencyReturned =>
    /\ \A c \in CurrencySymbols :
         (HasChar(harg, {c}) /\ ~HasChar(harg, CurrencySymbols \ {c})) => hret = SymbolCurrency(c)
    /\ (~HasChar(harg, CurrencySymbols) /\ ~HasCode(harg)) => hret = "EUR"

ListinoReturned == ExtractReturned /\ fullText = ListinoText

\* C19, as stated: for the document of the one line "€ 4.377,00 MODEL-X
\* Listino" one row is returned, with the code MODEL-X, the currency EUR and
\* the price 4377.00 in the List and Cost fields of its tier.
C19_ListinoRowHasModelX ==
  ListinoReturned =>
    /\ Len(outcome.rows) = 1
    /\ outcome.rows[1].ModelCode = Chars("MODEL-X")
    /\ outcome.rows[1].ISOCurrency = "EUR"
    /\ PriceOf(outcome.rows[1]) = 437700

\* C19, amended: for that document one row is returned, with the synthetic
\* code ITEM_1 (MODEL-X has no digit and is no identifier), the description
\* "MODEL-X Listino", the currency EUR, the tier T2 and the price 4377.00 in
\* T2List and T2Cost, 0 in T1List and T1Cost.
C19_ListinoRowHasItemCode ==
  ListinoReturned =>
    /\ Len(outcome.rows) = 1
    /\ outcome.rows[1].ModelCode = Chars("ITEM_1")
    /\ outcome.rows[1].ModelDescription = Chars("MODEL-X Listino")
    /\ outcome.rows[1].ISOCurrency = "EUR"
    /\ outcome.rows[1].T1orT2 = "T2"
    /\ outcome.rows[1].T2List = 437700 /\ outcome.rows[1].T2Cost = 437700
    /\ outcome.rows[1].T1List = 0 /\ outcome.rows[1].T1Cost = 0

\* C19 witness: the call on that document has returned its row.
C19_Witness ==
  /\ ListinoReturned
  /\ Len(log) = 1 /\ log[1].token = <<Euro>> \o Chars(" 4.377,00") /\ ~log[1].hasCode
  /\ Len(outcome.rows) = 1
  /\ outcome.rows[1].MaterialID = Chars("ITEM_1")


(***************************************************************************)
(* Properties of overlapping calls                                         *)
(***************************************************************************)

\* What a call settles with when no other call runs.
AloneOutcome(call) ==
  IF call.kind = "salvage" THEN [kind |-> "returned", value |-> tryParseJSON(call.raw)]
  ELSE IF ~toBuffer(call.file).ok
       THEN [kind |-> "thrown", value |-> [kind |-> "Error", message |-> toBuffer(call.file).error]]
  ELSE IF ~call.parsed.ok
       THEN [kind |-> "thrown", value |-> [kind |-> "Error", message |-> "pdfParse"]]
  ELSE [kind |-> "returned",
        value |-> [kind |-> "Rows", rows |-> extractAlone(call.parsed.text, call.meta)]]

Settled(c) == cpc[c] \in {"returned", "thrown"}

\* C20: no state crosses invocations. Whatever the order in which two
\* overlapping extract or salvage calls take their steps, the module-level
\* regexes are left with lastIndex 0 between the steps, and every call that
\* has settled has returned or thrown exactly what it returns or throws when
\* it runs alone: the rows, the context windows and the dedup set of a run
\* start empty in every call.
C20_OverlappingCallsAsAlone ==
  /\ lastIndex = ZeroIndex
  /\ \A c \in CallIds :
       Settled(c) =>
         /\ cpc[c] = AloneOutcome(cin[c]).kind
         /\ cout[c] = AloneOutcome(cin[c]).value

\* Two extractions of different documents overlap: a starts, b starts and
\* finishes while a waits for pdfParse, then a finishes; both return rows.
C20_Witness ==
  /\ steps = << <<"a", "begin">>, <<"b", "begin">>, <<"b", "settle">>, <<"a", "settle">> >>
  /\ \A c \in CallIds : cin[c].kind = "extract" /\ cpc[c] = "returned" /\ cout[c].rows # <<>>
  /\ cin["a"].parsed # cin["b"].parsed
  /\ cout["a"].rows # cout["b"].rows
  /\ frame.rows # <<>>
  /\ frame.seen # {}


(***************************************************************************)
(* Properties of the bracket-aware scan and of the last block of salvage   *)
(***************************************************************************)

\* For each position of s: is the character there outside every quoted string
\* and not escaped (bare), and the bracket depth after it: the bare "[" so
\* far less the bare "]" so far.
ProfileStep(st, s, i) ==
  LET note(bare, depth) ==
        [inStr |-> st.inStr, esc |-> FALSE, depth |-> depth,
         acc |-> Append(st.acc, [bare |-> bare, depth |-> depth])]
  IN  IF st.esc THEN note(FALSE, st.depth)
      ELSE IF s[i] = Backslash THEN [note(FALSE, st.depth) EXCEPT !.esc = TRUE]
      ELSE IF s[i] = Quote THEN [note(FALSE, st.depth) EXCEPT !.inStr = ~st.inStr]
      ELSE IF st.inStr THEN note(FALSE, st.depth)
      ELSE IF s[i] = "[" THEN note(TRUE, st.depth + 1)
      ELSE IF s[i] = "]" THEN note(TRUE, st.depth - 1)
      ELSE note(TRUE, st.depth)

DepthProfile(s) ==
  Scan(ProfileStep, s, [inStr |-> FALSE, esc |-> FALSE, depth |-> 0, acc |-> <<>>]).acc

\* The arrays of s at bracket depth 0, as pairs of the positions of their
\* brackets: a bare "[" that takes the depth from 0 to 1 and the next bare "]"
\* that takes it back to 0.
TopLevelArraysOf(s, prof) ==
  LET opens == {a \in 1..Len(s) : prof[a].bare /\ s[a] = "[" /\ prof[a].depth = 1}
      closes == {b \in 1..Len(s) : prof[b].bare /\ s[b] = "]" /\ prof[b].depth = 0}
  IN  {<<a, b>> \in opens \X closes : \A c \in closes : c > a => b <= c}

TopLevelArrays(s) == {p \in TopLevelArraysOf(s, DepthProfile(s)) : p[1] < p[2]}

MarkedArrays(s) == {p \in TopLevelArrays(s) : LooksLikeItems(SubSeq(s, p[1], p[2]))}

FirstMarkedArray(s) ==
  LET p == CHOOSE q \in MarkedArrays(s) : \A r \in MarkedArrays(s) : q[1] <= r[1]
  IN  SubSeq(s, p[1], p[2])

ItemsTried == {k \in 1..Len(tried) : tried[k].stage = "items"}

WrappedItems(arr) == <<"{", "<str>">> \o Chars("items") \o <<"</str>", ":">> \o arr \o <<"}">>

SpanStep(st, s, i) ==
  IF st.esc THEN [inStr |-> st.inStr, esc |-> FALSE, acc |-> Append(st.acc, st.inStr)]
  ELSE IF s[i] = Backslash THEN [inStr |-> st.inStr, esc |-> TRUE, acc |-> Append(st.acc, st.inStr)]
  ELSE IF s[i] = Quote THEN [inStr |-> ~st.inStr, esc |-> FALSE, acc |-> Append(st.acc, FALSE)]
  ELSE [inStr |-> st.inStr, esc |-> FALSE, acc |-> Append(st.acc, st.inStr)]

InsideString(s) == Scan(SpanStep, s, [inStr |-> FALSE, esc |-> FALSE, acc |-> <<>>]).acc

\* The standard escape of a control character.
StandardEscape(c) ==
  CASE c = NL -> <<Backslash, "n">>
    [] c = CR -> <<Backslash, "r">>
    [] c = TAB -> <<Backslash, "t">>
    [] c = BS -> <<Backslash, "b">>
    [] c = FF -> <<Backslash, "f">>
    [] OTHER -> <<c>>

\* s with every raw control character inside a quoted string replaced by its
\* standard escape and every other character kept.
RECURSIVE EscapedFrom(_, _, _)
EscapedFrom(s, inside, i) ==
  IF i > Len(s) THEN <<>>
  ELSE (IF inside[i] /\ s[i] \in JsonControlChars /\ (i = 1 \/ s[i - 1] # Backslash)
        THEN StandardEscape(s[i]) ELSE <<s[i]>>) \o EscapedFrom(s, inside, i + 1)

EscapeReturned == sfn = "escape" /\ spc = "returned"

\* C22: when the final scan of the sanitizer has returned, no raw control
\* character is left inside a quoted string of what it wrote, each one having
\* been replaced by its own standard escape, and every character outside the
\* quoted strings is as it was.
C22_NoRawControlInStrings ==
  EscapeReturned =>
    /\ \A i \in 1..Len(sst.out) :
         (InsideString(sst.out)[i] /\ (i = 1 \/ sst.out[i - 1] # Backslash))
           => sst.out[i] \notin JsonControlChars
    /\ sst.out = EscapedFrom(stext, InsideString(stext), 1)


\* The pieces that are one array with a marker and nothing else.
MarkedPieces == {p \in ItemsPieces : p[1] = "[" /\ p[Len(p)] = "]" /\ LooksLikeItems(p)}

\* C28: in every state of the bracket scan the depth counter is not negative,
\* and a "]" without its "[" in front of an array with a marker does not keep
\* the scan from returning an array.
C28_DepthNeverNegative ==
  sfn = "items" =>
    /\ sst.depth >= 0
    /\ (spc = "returned" /\ \E p \in MarkedPieces : stext = <<"]">> \o p) => sst.found


(***************************************************************************)
(* Properties of the context windows and of what the rows take from them   *)
(***************************************************************************)

\* The description fragment of a line: the line with its monetary tokens
\* removed, trimmed.
FragmentOf(line) == Trim(PRICE_RX(line).out)

\* The step is one round of the line loop.
LineScanned == epc = "scan" /\ lineNo <= Len(lines) /\ lineNo' = lineNo + 1

\* C23: at every point of the line scan the identifier window holds at most
\* 6 tokens and the description window at most 6 fragments, and a round of
\* the loop whose line has a fragment, made with a full description window,
\* leaves the window without its oldest fragment and with the new fragment
\* last.
C23_WindowsBounded ==
  /\ [](Len(contextCodes) <= CodesWindow /\ Len(contextDesc) <= DescWindow)
  /\ [][(LineScanned /\ Len(contextDesc) = DescWindow /\ FragmentOf(lines[lineNo]) # <<>>)
          => contextDesc' = Tail(contextDesc) \o <<FragmentOf(lines[lineNo])>>]_vars

\* Both windows are full, the line before had more identifiers than the
\* window holds, and the description window has lost the fragment of the
\* first line.
C23_Witness ==
  /\ epc = "scan"
  /\ lineNo > DescWindow + 1
  /\ Len(contextDesc) = DescWindow
  /\ Len(contextCodes) = CodesWindow
  /\ Len(MODEL_RX(lines[lineNo - 1])) > CodesWindow
  /\ \A k \in 1..(lineNo - 1) : FragmentOf(lines[k]) # <<>>
  /\ contextDesc[1] = FragmentOf(lines[2])
  /\ contextDesc[1] # FragmentOf(lines[1])


\* The identifiers of a line: its matches of MODEL_RX (three characters or
\* more) that hold a letter and a digit.
IdentifiersOf(line) ==
  SelectSeq(MODEL_RX(line), LAMBDA c : HasChar(c, LetterChars) /\ HasChar(c, DigitChars))

\* The lines up to line n that have an identifier.
IdentifierLines(n) == {k \in 1..n : IdentifiersOf(lines[k]) # <<>>}

LastOf(seq) == seq[Len(seq)]

Latest(ks) == CHOOSE k \in ks : \A j \in ks : j <= k

\* C24: the ModelCode of a row is the last identifier of the latest line, up
\* to the line of its price token, that has an identifier, however many lines
\* without identifiers lie between; only when there is no such line is it the
\* synthetic ITEM_<n>, n the place of the row among the rows.
C24_CodeFromLatestIdentifierLine ==
  \A i \in 1..Len(rows) :
    /\ \A c \in 1..Len(IdentifiersOf(lines[rows[i].at[1]])) :
         Len(IdentifiersOf(lines[rows[i].at[1]])[c]) >= 3
    /\ IF IdentifierLines(rows[i].at[1]) # {}
       THEN rows[i].ModelCode = LastOf(IdentifiersOf(lines[Latest(IdentifierLines(rows[i].at[1]))]))
       ELSE rows[i].ModelCode = Chars("ITEM_") \o NatDigits(i)

\* A row made on a line without identifiers, two lines after the line its
\* code comes from, which has several identifiers.
C24_Witness ==
  \E i \in 1..Len(rows) :
    /\ rows[i].at[1] >= 3
    /\ Latest(IdentifierLines(rows[i].at[1]) \cup {0}) = rows[i].at[1] - 2
    /\ Len(IdentifiersOf(lines[rows[i].at[1] - 2])) > 1
    /\ rows[i].ModelCode = Chars("G07")


\* The fragments recorded up to line n, in scan order: the fragments of the
\* lines 1..n that are not empty.
RECURSIVE FragmentsUpTo(_)
FragmentsUpTo(n) ==
  IF n = 0 THEN <<>>
  ELSE IF FragmentOf(lines[n]) = <<>> THEN FragmentsUpTo(n - 1)
  ELSE Append(FragmentsUpTo(n - 1), FragmentOf(lines[n]))

\* The last fragments of frs, at most three, with one space between them.
RecentJoined(frs) ==
  IF Len(frs) >= 3 THEN frs[Len(frs) - 2] \o <<" ">> \o frs[Len(frs) - 1] \o <<" ">> \o frs[Len(frs)]
  ELSE IF Len(frs) = 2 THEN frs[1] \o <<" ">> \o frs[2]
  ELSE frs[1]

\* C25: the ModelDescription of a row is made of the most recent fragments,
\* at most three, recorded up to and including the line of its price token,
\* in scan order with a space between them, a fragment being a line with its
\* monetary tokens removed, if it is not empty; it is "Price Item" only when
\* no fragment has been recorded.
C25_DescriptionFromRecentFragments ==
  \A i \in 1..Len(rows) :
    LET from(frs) == IF frs = <<>> THEN Chars("Price Item") ELSE RecentJoined(frs)
    IN  rows[i].ModelDescription = from(FragmentsUpTo(rows[i].at[1]))

\* A row made on a line that is a price and nothing else, after five lines
\* with a fragment: its description is made of the last three of them, which
\* are not all the same.
C25_Witness ==
  \E i \in 1..Len(rows) :
    LET last(frs) ==
          /\ Len(frs) >= 5
          /\ rows[i].ModelDescription = RecentJoined(frs)
          /\ frs[Len(frs)] # frs[Len(frs) - 1]
    IN  /\ FragmentOf(lines[rows[i].at[1]]) = <<>>
        /\ rows[i].ModelDescription # Chars("Price Item")
        /\ last(FragmentsUpTo(rows[i].at[1]))


T1Words == {Chars("MSRP"), Chars("list"), Chars("retail")}

T2Words == {Chars("net"), Chars("dealer"), Chars("trade"), Chars("discount"), Chars("offer")}

\* The context the tier of a row is read from: the most recent fragments, at
\* most four, recorded up to and including the line of its price token, and
\* that line itself.
TierContext(r) ==
  JoinWith(LastN(FragmentsUpTo(r.at[1]), TierTail), <<" ">>) \o <<" ">> \o lines[r.at[1]]

Names(context, words) == \E w \in words : HasWord(context, w)

\* C26 as the spec words it: a row is T1 when its context holds MSRP, list or
\* retail, T2 when it holds net, dealer, trade, discount or offer, and T2
\* when it holds none of them.
C26_TierByKeyword ==
  \A i \in 1..Len(rows) :
    LET asWorded(context) ==
          /\ Names(context, T1Words) => rows[i].T1orT2 = "T1"
          /\ Names(context, T2Words) => rows[i].T1orT2 = "T2"
          /\ (~Names(context, T1Words) /\ ~Names(context, T2Words)) => rows[i].T1orT2 = "T2"
    IN  asWorded(TierContext(rows[i]))

\* C26: a row is T1 when its context holds the word MSRP, list or retail,
\* in whatever case and whether or not it also holds a T2 word, and T2 in
\* every other case.
C26_T1WordsWin ==
  \A i \in 1..Len(rows) :
    LET tierOf(context) == IF Names(context, T1Words) THEN "T1" ELSE "T2"
    IN  rows[i].T1orT2 = tierOf(TierContext(rows[i]))

\* The first row has a context with a word of each tier and is T1; the last
\* row, made after the T1 word has left the context, is T2.
C26_Witness ==
  /\ epc = "scan" /\ lineNo > Len(lines) /\ Len(rows) >= 5
  /\ rows[1].T1orT2 = "T1"
  /\ Names(TierContext(rows[1]), T1Words) /\ Names(TierContext(rows[1]), T2Words)
  /\ rows[Len(rows)].T1orT2 = "T2"
  /\ ~Names(TierContext(rows[Len(rows)]), T1Words) /\ Names(TierContext(rows[Len(rows)]), T2Words)


(***************************************************************************)
(* Properties of salvage on well-formed input                              *)
(***************************************************************************)

\* C27: when the raw text is valid JSON as it stands, salvage returns the
\* value that parsing the raw text gives.
C27_ValidJsonPreserved ==
  (pc = "returned" /\ JSONparse(raw).ok) => result = [kind |-> "Ok", value |-> JSONparse(raw).val]


(***************************************************************************)
(* Properties of generateSchemaWithRetry                                   *)
(***************************************************************************)

\* The error is a rate-limit error: its status is 429, or its message
\* mentions a rate limit or a quota.
RateLimited(e) ==
  e.object /\ (e.status = 429 \/ MentionsLimit(e.message))

RetryDone == gpc \in {"returned", "thrown"}

\* C29: generateSchemaWithRetry calls the model at most three times; it makes
\* a further call only after a call that failed with a rate-limit error; the
\* first call that succeeds ends it with the result of that call; an error
\* that is not a rate-limit error, and the error of the third call, are
\* thrown as they are, without another call; and it always ends.
C29_AtMostThreeCallsThenEnds ==
  /\ [](gpc # "idle" =>
          /\ calls <= maxAttempts
          /\ \A k \in 1..(calls - 1) : ~answers[k].ok /\ RateLimited(answers[k].err)
          /\ gpc = "returned" => answers[calls].ok /\ gret = [kind |-> "res", value |-> answers[calls].res]
          /\ gpc = "sleeping" => ~answers[calls].ok
          /\ gpc = "thrown" =>
               /\ ~answers[calls].ok
               /\ gret = [kind |-> "error", value |-> answers[calls].err]
               /\ calls = maxAttempts \/ ~RateLimited(answers[calls].err))
  /\ <>RetryDone

\* The third call has failed with a rate-limit error after two others, and
\* its error, not theirs, is thrown.
C29_Witness ==
  /\ gpc = "thrown"
  /\ calls = maxAttempts
  /\ Len(caught) = maxAttempts
  /\ \A k \in 1..maxAttempts : RateLimited(caught[k])
  /\ caught[1].status = 429 /\ caught[2].status # 429
  /\ gret.value = caught[maxAttempts] /\ gret.value # caught[1] /\ gret.value # caught[2]

\* C30: in the page, under any interleaving of file selections and
\* extraction responses, the rows shown are empty or were all extracted from
\* the file that is selected now; a response to a request started for a file
\* selected earlier never fills the table of the new file.
C30_RowsOfSelectedFile ==
  \A k \in 1..Len(pageRows) : pageRows[k].from = pageFile

\* The part of C30 that the page keeps: the step that selects a file leaves
\* no row on the page.
C30_SelectingClearsRows ==
  [][pageFile' # pageFile => pageRows' = <<>>]_vars
====
